---- MODULE Spec2Model ----
(***************************************************************************)
(* A model of the telemetry-ingestion core of dataarm_notifier:            *)
(*   - CANMetricsServer  (telemetry/can_metrics_server.py)                 *)
(*   - ArmTelemetryServer (telemetry/arm_telemetry_server.py)              *)
(*                                                                         *)
(* Conventions.                                                            *)
(*  * A JSON value that the code passes to int() is a record               *)
(*    [t |-> tag, v |-> n]: the tag says how the value is spelled on the   *)
(*    wire and n is its integer payload (see IntOf).                       *)
(*  * bus load is in percent, the error and drop rates are in hundredths   *)
(*    of a frame per second (10 is 0.1/s, 100 is 1.0/s).                   *)
(*  * A Python exception is the field exc of the record an operator        *)
(*    returns; "none" means the statement sequence ran to its end.         *)
(*  * A ratio n/d (a Python float quotient) is the pair <<n, d>>.          *)
(***************************************************************************)
EXTENDS Integers, Sequences, FiniteSets, TLC

VARIABLES
    \* ---- CANMetricsServer fields
    can_running,          \* self._running
    can_id_to_name,       \* self._can_id_to_name      : can id -> name
    can_id_to_joint_id,   \* self._can_id_to_joint_id  : can id -> joint id
    can_id_map,           \* self._can_id_map          : send id -> recv id
    last_status,          \* self._last_status
    status_message,       \* self._status_message
    last_pair_counts,     \* self._last_pair_counts    : joint id -> <<timeout, sample>>
    can_pc,               \* per connection: position of its _handle_client coroutine
    \* ---- what the last handled line did (observation of the run)
    can_last,             \* the last line handled and its outcome
    can_docs,             \* number of rr.log("notify/dashboard", ...) calls so far
    can_changes,          \* number of metrics messages whose computed level differs
                          \* from the level computed by the preceding one
    can_prev_level,       \* the level computed by the preceding metrics message
    can_steps,            \* lines handled so far
    can_listening,        \* self._server is open (start() done, not yet closed)
    \* ---- ArmTelemetryServer fields
    arm_running,              \* self._running
    arm_listening,            \* self._server is open
    blueprint_sent,           \* self._blueprint_sent
    joint_names,              \* self._joint_names: <<1, ..., n>> stands for j1..jn
    idle_timeout_s,           \* self._idle_timeout_s: [set, s], set = FALSE is None
    drop_camera_when_idle,    \* self._drop_camera_when_idle
    last_arm_sample_mono_s,   \* self._last_arm_sample_mono_s
    logged_idle_for_camera,   \* self._logged_idle_for_camera
    arm_pc,                   \* per connection: position of its _handle_client coroutine
    mono,                     \* time.monotonic(), in whole seconds
    \* ---- what the last handled line did (observation of the run)
    arm_last,                 \* the last line handled and its outcome
    arm_steps,                \* lines handled so far
    arm_events,               \* the idle-span events logged to arm/events, in order
    \* ---- the byte streams of the connections, per server and connection
    inbox,                    \* lines received and buffered by the StreamReader, unread
    sent,                     \* every line the peer has sent so far
    done,                     \* every line readline() has returned so far
    \* ---- TelemetryProducer fields
    event_logged,             \* self._event_logged: the set of event keys
    notify_log,               \* the entries written to notify/log, in order
    events_seen,              \* the (level, message) pairs of the log_event calls, in order
    \* ---- USBLampController fields
    red_on,                   \* self.red_on
    green_on,                 \* self.green_on
    blue_on,                  \* self.blue_on
    white_on,                 \* self.white_on
    lamp_last                 \* the last call on the controller: the flags it found
                              \* set and the commands it sent

can_vars == <<can_running, can_id_to_name, can_id_to_joint_id, can_id_map,
              last_status, status_message, last_pair_counts, can_pc,
              can_last, can_docs, can_changes, can_prev_level, can_steps,
              can_listening>>

arm_vars == <<arm_running, arm_listening, blueprint_sent, joint_names,
              idle_timeout_s, drop_camera_when_idle, last_arm_sample_mono_s,
              logged_idle_for_camera, arm_pc, mono, arm_last, arm_steps,
              arm_events>>

wire_vars == <<inbox, sent, done>>

prod_vars == <<event_logged, notify_log, events_seen>>

lamp_vars == <<red_on, green_on, blue_on, white_on, lamp_last>>

vars == <<can_vars, arm_vars, wire_vars, prod_vars, lamp_vars>>

-----------------------------------------------------------------------------
(* Python dictionaries are functions with a finite domain.                 *)

EmptyMap == << >>

Put(m, k, v) == [x \in (DOMAIN m) \cup {k} |-> IF x = k THEN v ELSE m[x]]

Has(m, k) == k \in DOMAIN m

GetOr(m, k, d) == IF k \in DOMAIN m THEN m[k] ELSE d

Max(a, b) == IF a >= b THEN a ELSE b

Min(a, b) == IF a <= b THEN a ELSE b

-----------------------------------------------------------------------------
(* int(x) on a decoded JSON value.                                         *)
(*   "int"   the JSON integer n              -> n                          *)
(*   "str"   the JSON string "n"             -> n                          *)
(*   "pad"   the JSON string "0n"            -> n   (another spelling)     *)
(*   "float" the JSON number n.5 (n >= 0)    -> n   (truncation)           *)
(*   "word"  a non-numeric JSON string       -> ValueError                 *)
(*   "null"  JSON null                       -> TypeError                  *)
(*   "inf"   a JSON number that decodes to float infinity (1e999)          *)
(*                                           -> OverflowError              *)

Ok(n) == [exc |-> "none", val |-> n]

Raise(e) == [exc |-> e, val |-> 0]

IntOf(x) ==
    CASE x.t = "int"   -> Ok(x.v)
      [] x.t = "str"   -> Ok(x.v)
      [] x.t = "pad"   -> Ok(x.v)
      [] x.t = "float" -> Ok(x.v)
      [] x.t = "word"  -> Raise("ValueError")
      [] x.t = "null"  -> Raise("TypeError")
      [] x.t = "inf"   -> Raise("OverflowError")

(* Python truth value of a decoded JSON value (the "x or 0" idiom).        *)
Falsy(x) == x.t = "null" \/ (x.t = "int" /\ x.v = 0)

J(n) == [t |-> "int", v |-> n]

-----------------------------------------------------------------------------
(* The visualization sink (rr.log).  A handler's run is the record a:      *)
(*   a.out     the sink calls made so far, in order; ok = FALSE marks the  *)
(*             call that raised                                            *)
(*   a.exc     the pending exception, "none" when there is none            *)
(*   a.failAt  the sink call of this message that raises (0: none does),   *)
(*   a.failKind the exception it raises                                    *)
(* A statement is executed only while no exception is pending.             *)

SinkCall(p, id, num, den, text) ==
    [p |-> p, id |-> id, num |-> num, den |-> den, text |-> text, ok |-> TRUE]

Log(a, call) ==
    IF a.exc # "none" THEN a
    ELSE IF Len(a.out) + 1 = a.failAt
         THEN [a EXCEPT !.out = Append(@, [call EXCEPT !.ok = FALSE]),
                        !.exc = a.failKind]
         ELSE [a EXCEPT !.out = Append(@, call)]

Scalar(a, p, id, n) == Log(a, SinkCall(p, id, n, 1, ""))

(* try: ... except (ValueError, TypeError, SyntaxError): pass              *)
Caught217 == {"ValueError", "TypeError", "SyntaxError"}

(* try: ... except (ValueError, TypeError): pass                           *)
CaughtVT == {"ValueError", "TypeError"}

Catch(a, caught) == IF a.exc \in caught THEN [a EXCEPT !.exc = "none"] ELSE a

-----------------------------------------------------------------------------
(* _update_can_status: the level of one metrics message.                   *)

ComputeStatusGt80(bus_load, error_rate, drop_rate) ==
    IF bus_load > 80 \/ error_rate > 100 THEN "ERROR"
    ELSE IF bus_load >= 50 \/ error_rate > 10 \/ drop_rate > 10 THEN "WARNING"
    ELSE "INFO"

ComputeStatus(bus_load, error_rate, drop_rate) ==
    IF bus_load >= 80 \/ error_rate > 100 THEN "ERROR"
    ELSE IF bus_load >= 50 \/ error_rate > 10 \/ drop_rate > 10 THEN "WARNING"
    ELSE "INFO"

(* The f-string of the level: its text and the numbers it formats.         *)
StatusMessage(level, bus_load, error_rate) ==
    CASE level = "ERROR"   -> <<"CAN Critical", bus_load, error_rate>>
      [] level = "WARNING" -> <<"CAN Warning", bus_load, 0>>
      [] OTHER             -> <<"CAN Nominal", 0, 0>>

StatusChangedAlways(new_status, stored) == TRUE

StatusChanged(new_status, stored) == new_status # stored

UpdateCanStatus(a, bus_load, data) ==
    IF a.exc # "none" THEN a
    ELSE
    LET error_rate == GetOr(data, "error_frames_per_second", 0)
        drop_rate  == GetOr(data, "dropped_frames_per_second", 0)
        new_status == ComputeStatus(bus_load, error_rate, drop_rate)
        message    == StatusMessage(new_status, bus_load, error_rate)
        a1         == [a EXCEPT !.level = new_status]
    IN  IF StatusChanged(new_status, a.status)
        THEN Log([a1 EXCEPT !.status = new_status, !.message = message],
                 SinkCall("notify/dashboard", 0, bus_load, 1, new_status))
        ELSE a1

-----------------------------------------------------------------------------
(* _handle_metrics, the per_pair_rtt loop.                                 *)
(* An entry of per_pair_rtt is [key, stats]:                               *)
(*   key   = [form, send, recv]: form "pair" is a string that              *)
(*           ast.literal_eval turns into a two-element sequence of the     *)
(*           values send and recv; any other form makes literal_eval or    *)
(*           the unpacking raise (ValueError / SyntaxError / TypeError);   *)
(*   stats = [form, rtt_mean_ms, timeout_count, sample_count]: form "dict" *)
(*           is a JSON object, any other form has no .get.                 *)

(* Lines 202-206: the joint id a pair is recorded under.                   *)
ResolveJointSendFirst(joints, key) ==
    LET sd == IntOf(key.send)
        r  == IF sd.exc = "none" /\ ~Has(joints, sd.val) THEN IntOf(key.recv) ELSE Ok(0)
    IN  IF sd.exc # "none" THEN sd
        ELSE IF Has(joints, sd.val) THEN Ok(joints[sd.val])
        ELSE IF r.exc # "none" THEN r
        ELSE IF Has(joints, r.val) THEN Ok(joints[r.val])
        ELSE r

ResolveJoint(joints, key) ==
    LET r  == IntOf(key.recv)
        sd == IF r.exc = "none" /\ ~Has(joints, r.val) THEN IntOf(key.send) ELSE Ok(0)
    IN  IF r.exc # "none" THEN r
        ELSE IF Has(joints, r.val) THEN Ok(joints[r.val])
        ELSE IF sd.exc # "none" THEN sd
        ELSE IF Has(joints, sd.val) THEN Ok(joints[sd.val])
        ELSE Ok(r.val)

(* int(stats.get(name, 0) or 0)                                            *)
IntOrZero(x) == IF Falsy(x) THEN Ok(0) ELSE IntOf(x)

(* Lines 212-213: max(0, count - prev).                                    *)
DeltaUnclamped(count, prev) == count - prev

Delta(count, prev) == Max(0, count - prev)

(* Line 215: delta_timeout / max(1, delta_timeout + delta_sample).         *)
LossRate(delta_timeout, delta_sample) ==
    <<delta_timeout, Max(1, delta_timeout + delta_sample)>>

(* Line 214: the counts stored for the joint after a pair.                 *)
StoreCountsKeepMax(counts, joint_id, timeout_count, sample_count) ==
    LET prev == GetOr(counts, joint_id, <<0, 0>>)
    IN  Put(counts, joint_id, <<Max(prev[1], timeout_count), Max(prev[2], sample_count)>>)

StoreCountsUndone(counts, joint_id, timeout_count, sample_count) == counts

StoreCounts(counts, joint_id, timeout_count, sample_count) ==
    Put(counts, joint_id, <<timeout_count, sample_count>>)

(* Lines 212-216: deltas against the counts stored for the joint, the new  *)
(* counts stored, the loss rate logged.                                    *)
PairEmit(a, key, joint_id, timeout_count, sample_count, delta_timeout, delta_sample) ==
    Log([a EXCEPT
           !.counts = StoreCounts(a.counts, joint_id, timeout_count, sample_count),
           !.pairlog = Append(@,
              [key |-> key, joint |-> joint_id,
               timeout |-> timeout_count, sample |-> sample_count,
               before |-> a.counts,
               after |-> StoreCounts(a.counts, joint_id, timeout_count, sample_count),
               loss |-> LossRate(delta_timeout, delta_sample)])],
        SinkCall("can/loss/<joint>", joint_id,
                 LossRate(delta_timeout, delta_sample)[1],
                 LossRate(delta_timeout, delta_sample)[2], ""))

(* Line 211: prev_timeout, prev_sample = self._last_pair_counts.get(...)   *)
PairDeltas(a, key, joint_id, timeout_count, sample_count, prev) ==
    PairEmit(a, key, joint_id, timeout_count, sample_count,
             Delta(timeout_count, prev[1]), Delta(sample_count, prev[2]))

(* Lines 209-210: the two int() conversions, timeout_count first.          *)
PairCounts(a, key, joint_id, tc, sc) ==
    IF a.exc # "none" THEN a
    ELSE IF tc.exc # "none" THEN [a EXCEPT !.exc = tc.exc]
    ELSE IF sc.exc # "none" THEN [a EXCEPT !.exc = sc.exc]
    ELSE PairDeltas(a, key, joint_id, tc.val, sc.val,
                    GetOr(a.counts, joint_id, <<0, 0>>))

(* Line 207 onwards, with the joint id resolved.                           *)
PairResolved(a, e, parsed) ==
    IF parsed.exc # "none" THEN [a EXCEPT !.exc = parsed.exc]
    ELSE PairCounts(Scalar(a, "can/rtt/<joint>", parsed.val,
                           GetOr(e.stats, "rtt_mean_ms", 0)),
                    e.key, parsed.val,
                    IntOrZero(GetOr(e.stats, "timeout_count", J(0))),
                    IntOrZero(GetOr(e.stats, "sample_count", J(0))))

(* Lines 196-216, the body of the try block for one pair.                  *)
PairTry(a, e, joints) ==
    PairResolved(a, e, IF e.key.form = "pair"
                       THEN ResolveJoint(joints, e.key)
                       ELSE Raise("ValueError"))

(* Lines 191-218, one iteration of the loop.                               *)
PairStep(a, e, joints) ==
    IF a.exc # "none" THEN a
    ELSE IF e.stats.form # "dict" THEN [a EXCEPT !.exc = "AttributeError"]
    ELSE Catch(PairTry([a EXCEPT !.rtts = Append(@, GetOr(e.stats, "rtt_mean_ms", 0))],
                       e, joints),
               Caught217)

RECURSIVE PairLoop(_, _, _)
PairLoop(a, pairs, joints) ==
    IF pairs = << >> THEN a
    ELSE PairLoop(PairStep(a, Head(pairs), joints), Tail(pairs), joints)

(* sorted(rtt_values): insertion into an ascending sequence.               *)
RECURSIVE Insert(_, _)
Insert(x, sq) ==
    IF sq = << >> THEN <<x>>
    ELSE IF x <= Head(sq) THEN <<x>> \o sq
    ELSE <<Head(sq)>> \o Insert(x, Tail(sq))

RECURSIVE Sorted(_)
Sorted(sq) == IF sq = << >> THEN << >> ELSE Insert(Head(sq), Sorted(Tail(sq)))

RECURSIVE Sum(_)
Sum(sq) == IF sq = << >> THEN 0 ELSE Head(sq) + Sum(Tail(sq))

(* Line 223: sorted(rtt_values)[int(len(rtt_values) * 0.95)], 0-based.     *)
P95Index(n) == (n * 95) \div 100

P95(rtt_values) == Sorted(rtt_values)[P95Index(Len(rtt_values)) + 1]

(* Lines 220-226.                                                          *)
Aggregate(a) ==
    IF a.exc # "none" \/ a.rtts = << >> THEN a
    ELSE
    LET m   == Log(a, SinkCall("can/rtt/mean", 0, Sum(a.rtts), Len(a.rtts), ""))
        p95 == P95(a.rtts)
    IN  Scalar(Scalar(m, "can/rtt/p95", 0, p95), "can/rtt/q95", 0, p95)

-----------------------------------------------------------------------------
(* _handle_metrics, the per_id_stats loop (lines 229-245).                 *)
(* An entry is [key, stats]: key is the JSON key, stats =                  *)
(* [form, fps_window, dt_mean_ms, dt_p95_ms].                              *)

PerIdTry(a, e, joints) ==
    LET can_id == IntOf(e.key)
    IN  IF can_id.exc # "none" THEN [a EXCEPT !.exc = can_id.exc]
        ELSE IF e.stats.form # "dict" THEN [a EXCEPT !.exc = "AttributeError"]
        ELSE
        LET joint_id   == GetOr(joints, can_id.val, can_id.val)
            fps        == GetOr(e.stats, "fps_window", 0)
            jitter     == GetOr(e.stats, "dt_mean_ms", 0)
            jitter_p95 == GetOr(e.stats, "dt_p95_ms", 0)
        IN  Scalar(Scalar(Scalar(Scalar(a,
                "can/fps/<joint>", joint_id, fps),
                "can/jitter/<joint>", joint_id, jitter),
                "can/jitter_p95/<joint>", joint_id, jitter_p95),
                "can/jitter_q95/<joint>", joint_id, jitter_p95)

PerIdStep(a, e, joints) ==
    IF a.exc # "none" THEN a ELSE Catch(PerIdTry(a, e, joints), CaughtVT)

RECURSIVE PerIdLoop(_, _, _)
PerIdLoop(a, entries, joints) ==
    IF entries = << >> THEN a
    ELSE PerIdLoop(PerIdStep(a, Head(entries), joints), Tail(entries), joints)

(* _handle_metrics (lines 167-248).                                        *)
HandleMetrics(a, data) ==
    LET bus_load     == GetOr(data, "bus_load_percent", 0)
        total_frames == GetOr(data, "total_frames", 0)
        active_ids   == GetOr(data, "active_ids", 0)
        error_rate   == GetOr(data, "error_frames_per_second", 0)
        drop_rate    == GetOr(data, "dropped_frames_per_second", 0)
        a1 == Scalar(Scalar(Scalar(Scalar(Scalar(a,
                "can/bus/load", 0, bus_load),
                "can/bus/frames_total", 0, total_frames),
                "can/bus/active_ids", 0, active_ids),
                "can/bus/errors_per_s", 0, error_rate),
                "can/bus/drops_per_s", 0, drop_rate)
        per_pair_rtt == GetOr(data, "per_pair_rtt", << >>)
        a2 == Aggregate(PairLoop(a1, per_pair_rtt, a.joints))
        per_id_stats == GetOr(data, "per_id_stats", << >>)
        a3 == PerIdLoop(a2, per_id_stats, a.joints)
    IN  UpdateCanStatus(a3, bus_load, data)

-----------------------------------------------------------------------------
(* _handle_event (lines 285-310).  The level computed from event_type is   *)
(* a local that is not passed on; the text-log line is the only effect.    *)

EventLevel(event_type) ==
    IF event_type \in {"error_frame", "watchdog"} THEN "ERROR"
    ELSE IF event_type \in {"timeout", "high_temp", "drop"} THEN "WARNING"
    ELSE "INFO"

HandleEvent(a, data) ==
    LET event_type == GetOr(data, "event_type", "unknown")
        can_id     == GetOr(data, "can_id", [t |-> "null", v |-> 0])
        \* f"{can_id:03X}" formats an int only
        fmt_exc    == IF can_id.t \in {"null", "int"} THEN "none" ELSE "ValueError"
    IN  IF fmt_exc # "none" THEN [a EXCEPT !.exc = fmt_exc]
        ELSE Log(a, SinkCall("notify/log", IF can_id.t = "int" THEN can_id.v ELSE 0,
                             0, 1, event_type))

-----------------------------------------------------------------------------
(* _handle_mapping (lines 312-346).  Each of joint_names, joint_ids and    *)
(* can_id_map is the sequence of the JSON object's entries [k, v], in its  *)
(* order.                                                                  *)

(* Lines 323-328: the value is stored as it is.                            *)
NameEntry(m, exc, e) ==
    IF exc # "none" THEN [m |-> m, exc |-> exc]
    ELSE LET k == IntOf(e.k)
         IN  IF k.exc = "none" THEN [m |-> Put(m, k.val, e.v), exc |-> "none"]
             ELSE IF k.exc \in CaughtVT THEN [m |-> m, exc |-> "none"]
             ELSE [m |-> m, exc |-> k.exc]

(* Lines 330-335 and 337-341: key and value both go through int().         *)
IntEntry(m, exc, e) ==
    IF exc # "none" THEN [m |-> m, exc |-> exc]
    ELSE LET k == IntOf(e.k)
             v == IF k.exc = "none" THEN IntOf(e.v) ELSE k
         IN  IF v.exc = "none" THEN [m |-> Put(m, k.val, v.val), exc |-> "none"]
             ELSE IF v.exc \in CaughtVT THEN [m |-> m, exc |-> "none"]
             ELSE [m |-> m, exc |-> v.exc]

RECURSIVE NameLoop(_, _, _)
NameLoop(m, exc, entries) ==
    IF entries = << >> THEN [m |-> m, exc |-> exc]
    ELSE LET r == NameEntry(m, exc, Head(entries))
         IN  NameLoop(r.m, r.exc, Tail(entries))

RECURSIVE IntLoop(_, _, _)
IntLoop(m, exc, entries) ==
    IF entries = << >> THEN [m |-> m, exc |-> exc]
    ELSE LET r == IntEntry(m, exc, Head(entries))
         IN  IntLoop(r.m, r.exc, Tail(entries))

HandleMapping(a, data) ==
    LET joint_names_ == GetOr(data, "joint_names", << >>)
        joint_ids_   == GetOr(data, "joint_ids", << >>)
        can_id_map_  == GetOr(data, "can_id_map", << >>)
        n == NameLoop(a.names, a.exc, joint_names_)
        j == IntLoop(a.joints, n.exc, joint_ids_)
        c == IntLoop(a.idmap, j.exc, can_id_map_)
    IN  [a EXCEPT !.names = n.m, !.joints = j.m, !.idmap = c.m, !.exc = c.exc]

-----------------------------------------------------------------------------
(* _process_message (lines 147-165): the router.                           *)

RouteEventToMetrics(msg_type) ==
    CASE msg_type = "metrics" -> "metrics"
      [] msg_type = "event"   -> "metrics"
      [] msg_type = "mapping" -> "mapping"
      [] OTHER                -> "none"

RouteOtherToEvent(msg_type) ==
    CASE msg_type = "metrics" -> "metrics"
      [] msg_type = "event"   -> "event"
      [] msg_type = "mapping" -> "mapping"
      [] msg_type = "ping"    -> "none"
      [] OTHER                -> "event"

Route(msg_type) ==
    CASE msg_type = "metrics" -> "metrics"
      [] msg_type = "event"   -> "event"
      [] msg_type = "mapping" -> "mapping"
      [] msg_type = "ping"    -> "none"
      [] OTHER                -> "none"

(* The run record notes each handler call and the argument it got.        *)
Called(a, handler, data) ==
    [a EXCEPT !.handler = handler,
              !.calls = Append(@, [handler |-> handler, data |-> data])]

ProcessMessage(a, message) ==
    LET msg_type == GetOr(message, "type", "null")
        data     == GetOr(message, "data", EmptyMap)
        handler  == Route(msg_type)
    IN  CASE handler = "metrics" -> HandleMetrics(Called(a, "metrics", data), data)
          [] handler = "event"   -> HandleEvent(Called(a, "event", data), data)
          [] handler = "mapping" -> HandleMapping(Called(a, "mapping", data), data)
          [] OTHER               -> a

-----------------------------------------------------------------------------
(* CANMetricsServer: construction, start, stop and the connection handler. *)

Conns == {"c1", "c2"}

(* Bounds: lines handled in one run of each specification.                 *)
MaxStatusLines == 4

MaxLossLines == 3

MaxMapLines == 3

(* Bound: the cumulative counts a snapshot carries are in 0..MaxCount.     *)
MaxCount == 2

NoLine == [kind |-> "none"]

NoOutcome ==
    [conn |-> "none", line |-> NoLine, exc |-> "none", handler |-> "none",
     level |-> "none", out |-> << >>, pairlog |-> << >>, calls |-> << >>,
     was_status |-> "INFO"]

(* __init__ (lines 42-59).                                                 *)
CanConstructed ==
    /\ can_id_to_name = EmptyMap
    /\ can_id_to_joint_id = EmptyMap
    /\ can_id_map = EmptyMap
    /\ last_status = "INFO"
    /\ status_message = <<"CAN Bus Monitoring Active", 0, 0>>
    /\ last_pair_counts = EmptyMap
    /\ can_last = NoOutcome
    /\ can_docs = 0
    /\ can_changes = 0
    /\ can_prev_level = "INFO"
    /\ can_steps = 0

UNCHANGED_CanData ==
    UNCHANGED <<can_id_to_name, can_id_to_joint_id, can_id_map, last_status,
                status_message, last_pair_counts, can_last, can_docs,
                can_changes, can_prev_level, can_steps>>

(* start() (lines 61-82).                                                  *)
CanStart ==
    /\ ~can_listening
    /\ can_running' = TRUE
    /\ can_listening' = TRUE
    /\ UNCHANGED can_pc
    /\ UNCHANGED_CanData

(* stop() (lines 106-112).                                                 *)
CanStop ==
    /\ can_running
    /\ can_running' = FALSE
    /\ can_listening' = FALSE
    /\ UNCHANGED can_pc
    /\ UNCHANGED_CanData

(* asyncio accepts a connection and creates the task of _handle_client.    *)
CanAccept(c) ==
    /\ can_listening
    /\ can_pc[c] = "none"
    /\ can_pc' = [can_pc EXCEPT ![c] = "new"]
    /\ UNCHANGED <<can_running, can_listening>>
    /\ UNCHANGED_CanData

(* A first step that starts a read before the flag is tested.              *)
CanEnterReadsFirst(c) ==
    /\ can_pc[c] = "new"
    /\ can_pc' = [can_pc EXCEPT ![c] = "await"]
    /\ UNCHANGED <<can_running, can_listening>>
    /\ UNCHANGED_CanData

(* The task's first step: "while self._running" (line 126).                *)
CanEnter(c) ==
    /\ can_pc[c] = "new"
    /\ can_pc' = [can_pc EXCEPT ![c] = IF can_running THEN "await" ELSE "closed"]
    /\ UNCHANGED <<can_running, can_listening>>
    /\ UNCHANGED_CanData

(* "except Exception" around _process_message (can_metrics_server.py line  *)
(* 136, arm_telemetry_server.py line 246): whether an exception raised     *)
(* while a message is processed leaves the read loop.  Everything the      *)
(* processing raises derives from Exception, so nothing does.              *)
ProcessingEscapesAlways(exc) == exc # "none"

ProcessingEscapes(exc) == FALSE

(* Where a handler is after one turn of its loop: back in readline() when  *)
(* the loop was not left and "while self._running" (can line 126, arm line *)
(* 219) holds, else through its finally clause, which closes the writer.   *)
HandlerAfterKeepsOpen(left, running) == IF ~running THEN "closed" ELSE "await"

HandlerAfterIgnoresStop(left, running) == IF left THEN "closed" ELSE "await"

HandlerAfter(left, running) == IF left \/ ~running THEN "closed" ELSE "await"

(* json.loads(data.decode()) (line 132) on a received line.                *)
DecodeExc(line) ==
    CASE line.kind = "badutf8" -> "UnicodeDecodeError"
      [] line.kind = "badjson" -> "JSONDecodeError"
      [] OTHER                 -> "none"

(* Lines 131-137: decode and process one line; every Exception is caught   *)
(* by the inner try, so the outcome keeps what was raised only as a note.  *)
CanProcessLine(a, line) ==
    IF DecodeExc(line) # "none" THEN [a EXCEPT !.exc = DecodeExc(line)]
    ELSE IF line.kind = "notobject" THEN [a EXCEPT !.exc = "AttributeError"]
    ELSE ProcessMessage(a, line.msg)

CountDocs(out) == Cardinality({i \in 1..Len(out) : out[i].p = "notify/dashboard"})

(* A run record that starts from the fields as constructed: a handler      *)
(* working on a copy of its own.                                           *)
CanRunOnOwnCopy(line) ==
    [names |-> EmptyMap, joints |-> EmptyMap, idmap |-> EmptyMap, counts |-> EmptyMap,
     status |-> "INFO", message |-> <<"CAN Bus Monitoring Active", 0, 0>>,
     out |-> << >>, exc |-> "none", level |-> "none",
     pairlog |-> << >>, rtts |-> << >>, handler |-> "none", calls |-> << >>,
     failAt |-> line.failAt, failKind |-> line.failKind]

(* The run record a handler starts from: the server's fields, no sink call *)
(* made, and the sink failure the line's processing will meet.             *)
CanRun(line) ==
    [names |-> can_id_to_name, joints |-> can_id_to_joint_id,
     idmap |-> can_id_map, counts |-> last_pair_counts,
     status |-> last_status, message |-> status_message,
     out |-> << >>, exc |-> "none", level |-> "none",
     pairlog |-> << >>, rtts |-> << >>, handler |-> "none", calls |-> << >>,
     failAt |-> line.failAt, failKind |-> line.failKind]

(* readline() returning nothing (EOF) or raising ends the loop: kind "eof" *)
(* is the empty read (line 128), "reset" and "toolong" are readline        *)
(* raising ConnectionResetError and ValueError (a frame over the limit),   *)
(* which the outer try catches (lines 139-142).                            *)
EndsLoop(line) == line.kind \in {"eof", "reset", "toolong"}

(* The fields after the run a, and the handler back at its loop test       *)
(* (line 126) or through its finally (lines 143-145).                      *)
CanCommit(c, line, a) ==
    /\ can_id_to_name' = a.names
    /\ can_id_to_joint_id' = a.joints
    /\ can_id_map' = a.idmap
    /\ last_pair_counts' = a.counts
    /\ last_status' = a.status
    /\ status_message' = a.message
    /\ can_last' = [conn |-> c, line |-> line, exc |-> a.exc,
                    handler |-> a.handler, level |-> a.level,
                    out |-> a.out, pairlog |-> a.pairlog,
                    calls |-> a.calls, was_status |-> last_status]
    /\ can_docs' = can_docs + CountDocs(a.out)
    /\ can_changes' = IF a.level # "none" /\ a.level # can_prev_level
                      THEN can_changes + 1 ELSE can_changes
    /\ can_prev_level' = IF a.level # "none" THEN a.level ELSE can_prev_level
    /\ can_pc' = [can_pc EXCEPT ![c] =
                     HandlerAfter(EndsLoop(line) \/ ProcessingEscapes(a.exc),
                                  can_running)]

(* One turn of the loop of _handle_client (lines 126-145): readline()      *)
(* returns `line` to the handler of connection c, which was suspended in   *)
(* it.                                                                     *)
CanLine(c, line) ==
    /\ can_pc[c] = "await"
    /\ CanCommit(c, line, IF EndsLoop(line) THEN CanRun(line)
                          ELSE CanProcessLine(CanRun(line), line))
    /\ can_steps' = can_steps + 1
    /\ UNCHANGED <<can_running, can_listening>>

(* A connection's peer sends one of `lines`.                               *)
CanRecv(c, lines) ==
    /\ can_pc[c] = "await"
    /\ \E line \in lines : CanLine(c, line)

(* The server as constructed, before start().                              *)
InitCanIdle ==
    /\ CanConstructed
    /\ can_running = FALSE
    /\ can_listening = FALSE
    /\ can_pc = [c \in Conns |-> "none"]

(* The server after start(), with connection c1 accepted and its handler   *)
(* suspended in its first readline().                                      *)
InitCanServing ==
    /\ CanConstructed
    /\ can_running = TRUE
    /\ can_listening = TRUE
    /\ can_pc = [c \in Conns |-> IF c = "c1" THEN "await" ELSE "none"]

-----------------------------------------------------------------------------
(* ArmTelemetryServer (telemetry/arm_telemetry_server.py).                 *)
(*                                                                         *)
(* A received line has a kind ("msg", "notobject", "badjson", "badutf8",   *)
(* "eof", "reset", "toolong") and, when it carries bytes, the flag marker: *)
(* the bytes contain "type":"camera_frame" (line 230).                     *)
(* A vector of a sample is [form |-> "list", items |-> <<tag, ...>>] with  *)
(* the tags "num" (float() accepts it), "word" (float() raises ValueError) *)
(* and "null" (TypeError); any other form is not a list.                   *)

NoTimeout == [set |-> FALSE, s |-> 0]

Timeout(s) == [set |-> TRUE, s |-> s]

(* __init__, lines 69-79: a timeout that is not positive is no timeout.    *)
IdleTimeout(arg) == IF arg.set /\ arg.s <= 0 THEN NoTimeout ELSE arg

(* _arm_is_active (lines 85-89).                                           *)
ArmIsActive(timeout, last, now) ==
    IF ~timeout.set THEN TRUE ELSE now - last <= timeout.s

IdleDropWithoutFlag(a, now) ==
    /\ idle_timeout_s.set
    /\ ~ArmIsActive(idle_timeout_s, a.last, now)

(* The test of lines 227-229, 282 and 310-312.                             *)
IdleDrop(a, now) ==
    /\ drop_camera_when_idle
    /\ idle_timeout_s.set
    /\ ~ArmIsActive(idle_timeout_s, a.last, now)

ArmCall(p, id, detail) ==
    [p |-> p, id |-> id, detail |-> detail, ok |-> TRUE, static |-> FALSE]

(* rr.log(path, rr.SeriesLines(...), static=True) (lines 193-208).         *)
StaticCall(p, id) == [ArmCall(p, id, "static") EXCEPT !.static = TRUE]

(* A sink call inside "try: ... except Exception: pass".                   *)
LogQuiet(a, call) ==
    IF a.exc # "none" THEN a ELSE [Log(a, call) EXCEPT !.exc = "none"]

LogIf(a, cond, call) == IF cond THEN Log(a, call) ELSE a

(* Lines 232-238 and 285-291: the "pausing" event, once per idle span.     *)
PauseOnce(a) ==
    IF a.logged THEN [a EXCEPT !.dropped = TRUE]
    ELSE [LogQuiet(a, ArmCall("arm/events", "INFO", "pausing"))
             EXCEPT !.logged = TRUE, !.dropped = TRUE]

(* "x or default" on a string field.                                       *)
StrOr(data, k, default) ==
    IF GetOr(data, k, "") = "" THEN default ELSE data[k]

(* Lines 258-263.                                                          *)
ArmEvent(a, data) ==
    LogIf(a, StrOr(data, "msg", "") # "",
          ArmCall("arm/events", StrOr(data, "level", "INFO"), StrOr(data, "msg", "")))

(* Lines 265-279.                                                          *)
GripperField(a, data, field, path) ==
    LogIf(a, a.exc = "none" /\ GetOr(data, field, "null") = "num",
          ArmCall(path, StrOr(data, "name", "gripper"), field))

ArmGripper(a, data) ==
    LogIf(GripperField(GripperField(GripperField(a, data, "pos", "gripper/<name>/pos"),
                                    data, "target", "gripper/<name>/target"),
                       data, "velocity", "gripper/<name>/vel"),
          GetOr(data, "torque_enabled", "null") # "null",
          ArmCall("gripper/<name>/torque_enabled", StrOr(data, "name", "gripper"),
                  "torque_enabled"))

(* Lines 281-303.  jpeg is "ok", "empty", "notstr" (or absent), or         *)
(* "badb64" (b64decode or the ascii encoding raises).                      *)
ArmCamera(a, data, now) ==
    IF IdleDrop(a, now) THEN PauseOnce(a)
    ELSE LogIf(a, GetOr(data, "jpeg", "notstr") = "ok",
               ArmCall("camera/<position>/<name>", StrOr(data, "position", "unknown"),
                       StrOr(data, "name", "camera")))

(* float(x) on an element of a vector.                                     *)
FloatExc(tag) ==
    CASE tag = "num"  -> "none"
      [] tag = "word" -> "ValueError"
      [] OTHER        -> "TypeError"

Float(a, tag) ==
    IF a.exc # "none" \/ tag = "num" THEN a ELSE [a EXCEPT !.exc = FloatExc(tag)]

IsList(v) == v.form = "list"

NotAList == [form |-> "other"]

Vec(data, field) == GetOr(data, field, NotAList)

(* "isinstance(v, list) and i < len(v)" followed by a float() whose errors *)
(* are caught: the optional value is read, or the default stays.           *)
Optional(v, i) ==
    IF IsList(v) /\ i <= Len(v.items) /\ v.items[i] = "num" THEN "read" ELSE "default"

(* Lines 385-389: the acc call and its float() are inside one try.         *)
AccStep(a, v, i) ==
    IF IsList(v) /\ i <= Len(v.items) /\ v.items[i] = "num"
    THEN LogQuiet(a, ArmCall("arm/joints/<name>/acc", i, "read"))
    ELSE a

(* Lines 349-391, the body of the loop for the joint at position i         *)
(* (1-based here, so its name is j<i>).                                    *)
JointChecked(a, data, i) ==
    Float(Float(Float(a, data.target.items[i]), data.pos.items[i]), data.vel.items[i])

JointLogged(a, data, i) ==
    Log(Log(Log(a, ArmCall("arm/joints/<name>/pos", i, Optional(Vec(data, "traj"), i))),
            ArmCall("arm/joints/<name>/vel", i,
                    <<Optional(Vec(data, "vel_filtered"), i),
                      Optional(Vec(data, "vel_boundary"), i),
                      Optional(Vec(data, "traj_vel_filtered"), i)>>)),
        ArmCall("arm/joints/<name>/pos/tracking_error", i, "abs"))

JointStep(a, data, i) ==
    Log(Float(AccStep(JointLogged(JointChecked(a, data, i), data, i),
                      Vec(data, "acc_filtered"), i),
              data.torque.items[i]),
        ArmCall("arm/joints/<name>/torque", i, "torque"))

RECURSIVE FanOut(_, _, _, _)
FanOut(a, data, i, n) ==
    IF i > n \/ a.exc # "none" THEN a
    ELSE FanOut(JointStep(a, data, i), data, i + 1, n)

(* _send_joint_grid_blueprint (lines 143-187).                             *)
SendJointGrid(a, n) ==
    IF a.bp THEN a
    ELSE [LogQuiet(a, ArmCall("blueprint", n, "joint grid"))
             EXCEPT !.bp = (Len(a.out) + 1 # a.failAt)]

(* _log_static_series_styles (lines 189-211).                              *)
RECURSIVE LogStyles(_, _, _)
LogStyles(a, i, n) ==
    IF i > n THEN a
    ELSE LogStyles([Log(Log(a, StaticCall("arm/joints/<name>/pos", i)),
                        StaticCall("arm/joints/<name>/vel", i))
                       EXCEPT !.exc = "none"],
                   i + 1, n)

JNames(n) == [i \in 1..n |-> i]

(* Lines 343-346.                                                          *)
InitJoints(a, n) ==
    IF a.names # << >> THEN a
    ELSE LogStyles(SendJointGrid([a EXCEPT !.names = JNames(n)], n), 1, n)

Min4Short(a, b, c, d) == Max(Min(Min(a, b), Min(c, d)) - 1, 0)

Min4(a, b, c, d) == Min(Min(a, b), Min(c, d))

(* Lines 323-391.                                                          *)
SampleJoints(a, data, n) == FanOut(InitJoints(a, n), data, 1, n)

SampleVectors(a, data) ==
    IF ~(/\ IsList(Vec(data, "target")) /\ IsList(Vec(data, "pos"))
         /\ IsList(Vec(data, "vel")) /\ IsList(Vec(data, "torque")))
    THEN a
    ELSE SampleJoints(a, data, Min4(Len(data.target.items), Len(data.pos.items),
                                    Len(data.vel.items), Len(data.torque.items)))

(* Lines 308-321.                                                          *)
SampleResumed(a, was_idle, now) ==
    IF was_idle
    THEN [LogIf([a EXCEPT !.last = now], a.logged,
                ArmCall("arm/events", "INFO", "resumed"))
             EXCEPT !.exc = "none", !.logged = FALSE]
    ELSE [a EXCEPT !.last = now]

ArmSample(a, data, now) ==
    SampleVectors(SampleResumed(a, IdleDrop(a, now), now), data)

(* _process_message (lines 254-391).                                       *)
IsDict(d) == "notdict" \notin DOMAIN d

NotDict == [notdict |-> TRUE]

ArmData(message) ==
    IF IsDict(GetOr(message, "data", EmptyMap)) THEN GetOr(message, "data", EmptyMap)
    ELSE EmptyMap

ArmProcessMessage(a, message, now) ==
    LET msg_type == GetOr(message, "type", "null")
    IN  CASE msg_type = "event"          -> ArmEvent(a, ArmData(message))
          [] msg_type = "gripper_sample" -> ArmGripper(a, ArmData(message))
          [] msg_type = "camera_frame"   -> ArmCamera(a, ArmData(message), now)
          [] msg_type = "sample"         -> ArmSample(a, ArmData(message), now)
          [] OTHER                       -> a

-----------------------------------------------------------------------------
(* ArmTelemetryServer: construction, start/stop and the connection handler *)

(* Bound: the clock runs over 0..MaxMono.                                  *)
MaxMono == 4

(* Bound: lines handled in one run of SpecDecode, both servers together.   *)
MaxDecodeLines == 3

NoArmOutcome ==
    [conn |-> "none", line |-> NoLine, exc |-> "none", escaped |-> FALSE,
     out |-> << >>, dropped |-> FALSE, path |-> "none", was_logged |-> FALSE]

(* __init__ (lines 53-83).                                                 *)
ArmConstructed(timeout_arg, drop_arg) ==
    /\ blueprint_sent = FALSE
    /\ joint_names = << >>
    /\ idle_timeout_s = IdleTimeout(timeout_arg)
    /\ drop_camera_when_idle = drop_arg
    /\ mono = 0
    /\ last_arm_sample_mono_s = 0
    /\ logged_idle_for_camera = FALSE
    /\ arm_last = NoArmOutcome
    /\ arm_steps = 0
    /\ arm_events = << >>

UNCHANGED_ArmData ==
    UNCHANGED <<blueprint_sent, joint_names, idle_timeout_s, drop_camera_when_idle,
                last_arm_sample_mono_s, logged_idle_for_camera, mono, arm_last,
                arm_steps, arm_events>>

(* start() (lines 97-110); the placeholder blueprint of lines 119-141 goes *)
(* to the sink only.                                                       *)
ArmStart ==
    /\ ~arm_listening
    /\ arm_running' = TRUE
    /\ arm_listening' = TRUE
    /\ UNCHANGED arm_pc
    /\ UNCHANGED_ArmData

(* stop() (lines 112-117).                                                 *)
ArmStop ==
    /\ arm_running
    /\ arm_running' = FALSE
    /\ arm_listening' = FALSE
    /\ UNCHANGED arm_pc
    /\ UNCHANGED_ArmData

ArmAccept(c) ==
    /\ arm_listening
    /\ arm_pc[c] = "none"
    /\ arm_pc' = [arm_pc EXCEPT ![c] = "new"]
    /\ UNCHANGED <<arm_running, arm_listening>>
    /\ UNCHANGED_ArmData

(* The task's first step: "while self._running" (line 219).                *)
ArmEnter(c) ==
    /\ arm_pc[c] = "new"
    /\ arm_pc' = [arm_pc EXCEPT ![c] = IF arm_running THEN "await" ELSE "closed"]
    /\ UNCHANGED <<arm_running, arm_listening>>
    /\ UNCHANGED_ArmData

(* time.monotonic() moves on while the handlers wait.                      *)
ArmTick ==
    /\ mono < MaxMono
    /\ mono' = mono + 1
    /\ UNCHANGED <<arm_running, arm_listening, blueprint_sent, joint_names,
                   idle_timeout_s, drop_camera_when_idle, last_arm_sample_mono_s,
                   logged_idle_for_camera, arm_pc, arm_last, arm_steps, arm_events>>

ArmRun(line) ==
    [names |-> joint_names, bp |-> blueprint_sent, last |-> last_arm_sample_mono_s,
     logged |-> logged_idle_for_camera, out |-> << >>, exc |-> "none",
     escaped |-> FALSE, dropped |-> FALSE, path |-> "none",
     failAt |-> line.failAt, failKind |-> line.failKind]

(* Lines 240-243: only json.JSONDecodeError is caught around the decoding; *)
(* any other exception of data.decode() or json.loads leaves the loop.     *)
DecodeCaught == {"JSONDecodeError"}

(* readline() raising: ConnectionResetError is caught by line 248, the     *)
(* ValueError of a frame over the limit is not.                            *)
ReadExc(line) ==
    CASE line.kind = "reset"   -> "ConnectionResetError"
      [] line.kind = "toolong" -> "ValueError"
      [] OTHER                 -> "none"

(* Lines 244-247: what _process_message raised is caught and the loop goes *)
(* on.                                                                     *)
ArmProcessed(a) ==
    [a EXCEPT !.path = "slow", !.escaped = ProcessingEscapes(a.exc)]

(* One turn of the loop (lines 219-247) on a line read at time now_fast    *)
(* and, when it gets that far, processed at time now_proc.                 *)
ArmDecoded(a, line, now_proc) ==
    IF DecodeExc(line) \in DecodeCaught THEN [a EXCEPT !.exc = DecodeExc(line)]
    ELSE IF DecodeExc(line) # "none"
    THEN [a EXCEPT !.exc = DecodeExc(line), !.escaped = TRUE]
    ELSE IF line.kind = "notobject"
    THEN [a EXCEPT !.exc = "AttributeError",
                   !.escaped = ProcessingEscapes("AttributeError")]
    ELSE ArmProcessed(ArmProcessMessage(a, line.msg, now_proc))

ArmHandle(a, line, now_fast, now_proc) ==
    IF EndsLoop(line)
    THEN [a EXCEPT !.exc = ReadExc(line), !.escaped = (line.kind = "toolong")]
    ELSE IF IdleDrop(a, now_fast) /\ line.marker
    THEN [PauseOnce(a) EXCEPT !.path = "fast"]
    ELSE ArmDecoded(a, line, now_proc)

IdleEvents == {"pausing", "resumed"}

(* The events of _log_arm_event (lines 91-95) that reached the sink.       *)
IsIdleEvent(call) == call.p = "arm/events" /\ call.ok /\ call.detail \in IdleEvents

RECURSIVE EventsOf(_)
EventsOf(out) ==
    IF out = << >> THEN << >>
    ELSE IF IsIdleEvent(Head(out)) THEN <<Head(out).detail>> \o EventsOf(Tail(out))
    ELSE EventsOf(Tail(out))

(* The fields after the run a; the handler is back at its loop test (line  *)
(* 219) or through its finally (lines 250-252).                            *)
ArmCommit(c, line, a, now) ==
    /\ arm_events' = arm_events \o EventsOf(a.out)
    /\ joint_names' = a.names
    /\ blueprint_sent' = a.bp
    /\ last_arm_sample_mono_s' = a.last
    /\ logged_idle_for_camera' = a.logged
    /\ mono' = now
    /\ arm_last' = [conn |-> c, line |-> line, exc |-> a.exc, escaped |-> a.escaped,
                    out |-> a.out, dropped |-> a.dropped, path |-> a.path,
                    was_logged |-> logged_idle_for_camera]
    /\ arm_pc' = [arm_pc EXCEPT ![c] =
                     HandlerAfter(EndsLoop(line) \/ a.escaped, arm_running)]

ArmLine(c, line) ==
    /\ arm_pc[c] = "await"
    /\ \E d \in {0, 1} :
          /\ mono + d <= MaxMono
          /\ ArmCommit(c, line, ArmHandle(ArmRun(line), line, mono, mono + d), mono + d)
    /\ arm_steps' = arm_steps + 1
    /\ UNCHANGED <<arm_running, arm_listening, idle_timeout_s, drop_camera_when_idle>>

(* A connection's peer sends one of `lines`.                               *)
ArmRecv(c, lines) ==
    /\ arm_pc[c] = "await"
    /\ \E line \in lines : ArmLine(c, line)

(* The server as constructed with its defaults, before start().            *)
InitArmIdle ==
    /\ ArmConstructed(NoTimeout, FALSE)
    /\ arm_running = FALSE
    /\ arm_listening = FALSE
    /\ arm_pc = [c \in Conns |-> "none"]

(* The server after start(), with connection c1 accepted and its handler   *)
(* suspended in its first readline().                                      *)
InitArmServing(timeout_arg, drop_arg) ==
    /\ ArmConstructed(timeout_arg, drop_arg)
    /\ arm_running = TRUE
    /\ arm_listening = TRUE
    /\ arm_pc = [c \in Conns |-> IF c = "c1" THEN "await" ELSE "none"]

Servers == {"can", "arm"}

(* No connection has carried a line yet.                                   *)
WireIdle ==
    /\ inbox = [s \in Servers |-> [c \in Conns |-> << >>]]
    /\ sent = [s \in Servers |-> [c \in Conns |-> << >>]]
    /\ done = [s \in Servers |-> [c \in Conns |-> << >>]]

(* USBLampController.__init__ (usb_lamp_controller.py, lines 44-66).       *)
LampConstructed ==
    /\ red_on = FALSE
    /\ green_on = FALSE
    /\ blue_on = FALSE
    /\ white_on = FALSE
    /\ lamp_last = [op |-> "init", on |-> FALSE, found |-> {}, sent |-> << >>]

(* TelemetryProducer.__init__ (producer.py, line 57).                      *)
ProducerConstructed ==
    /\ event_logged = {}
    /\ notify_log = << >>
    /\ events_seen = << >>

(* The CAN server serving one connection; the arm server not started.      *)
InitCanOnly == InitCanServing /\ InitArmIdle /\ WireIdle /\ ProducerConstructed /\ LampConstructed

-----------------------------------------------------------------------------
(* Lines on the wire.                                                      *)

Msg(m) == [kind |-> "msg", msg |-> m, failAt |-> 0, failKind |-> "none"]

MsgSinkFails(m, k, e) == [kind |-> "msg", msg |-> m, failAt |-> k, failKind |-> e]

RawLine(kind) == [kind |-> kind, failAt |-> 0, failKind |-> "none"]

Metrics(bus, err, drop, pairs) ==
    [type |-> "metrics",
     data |-> [bus_load_percent |-> bus, error_frames_per_second |-> err,
               dropped_frames_per_second |-> drop, per_pair_rtt |-> pairs]]

Event(event_type, can_id) ==
    [type |-> "event", data |-> [event_type |-> event_type, can_id |-> can_id]]

Mapping(names, ids, idmap) ==
    [type |-> "mapping",
     data |-> [joint_names |-> names, joint_ids |-> ids, can_id_map |-> idmap]]

Ping == [type |-> "ping", data |-> EmptyMap]

Unknown == [type |-> "status", data |-> EmptyMap]

Pair(send, recv) == [form |-> "pair", send |-> send, recv |-> recv]

Stats(rtt, timeout, sample) ==
    [form |-> "dict", rtt_mean_ms |-> rtt, timeout_count |-> timeout,
     sample_count |-> sample]

NotADict == [form |-> "list"]

Entry(k, v) == [k |-> k, v |-> v]

W(tag, n) == [t |-> tag, v |-> n]

ArmMsg(m, marker) ==
    [kind |-> "msg", msg |-> m, marker |-> marker, failAt |-> 0, failKind |-> "none"]

ArmRaw(kind, marker) ==
    [kind |-> kind, marker |-> marker, failAt |-> 0, failKind |-> "none"]

List(items) == [form |-> "list", items |-> items]

Sample(target, pos, vel, torque) ==
    [type |-> "sample",
     data |-> [target |-> target, pos |-> pos, vel |-> vel, torque |-> torque]]

CameraFrame(jpeg) ==
    [type |-> "camera_frame",
     data |-> [name |-> "wrist", position |-> "left", jpeg |-> jpeg]]

ArmEventMsg(level, msg) == [type |-> "event", data |-> [level |-> level, msg |-> msg]]

-----------------------------------------------------------------------------
(* Health status: metrics around each threshold of _update_can_status,     *)
(* with and without a failing sink, between messages of the other types.   *)

BusLoads == {49, 50, 79, 80}

ErrorRates == {10, 11, 100, 101}

DropRates == {10, 11}

StatusLines ==
    {Msg(Metrics(b, e, d, << >>)) : b \in BusLoads, e \in ErrorRates, d \in DropRates}
    \cup {MsgSinkFails(Metrics(b, 0, 0, << >>), k, "RuntimeError") :
             b \in {49, 80}, k \in {1, 6}}
    \cup {Msg(Metrics(85, 250, 0, <<[key |-> Pair(J(1), J(17)), stats |-> NotADict]>>)),
          Msg([type |-> "metrics", data |-> EmptyMap]),
          Msg(Event("error_frame", J(17))), Msg(Event("watchdog", W("null", 0))),
          Msg(Event("timeout", W("str", 17))),
          Msg(Mapping(<<Entry(W("str", 1), "shoulder")>>, <<Entry(W("str", 1), J(3))>>,
                      <<Entry(W("str", 1), J(17))>>)),
          Msg(Ping), Msg(Unknown)}

NextStatus ==
    /\ can_steps < MaxStatusLines
    /\ CanRecv("c1", StatusLines)
    /\ UNCHANGED <<arm_vars, wire_vars, prod_vars, lamp_vars>>

SpecStatus == InitCanOnly /\ [][NextStatus]_vars

-----------------------------------------------------------------------------
(* Pair loss and joint resolution: snapshots of one or two pairs over the  *)
(* can ids 1 and 2, with counts that rise and fall, between mapping        *)
(* messages that map a can id to joint 2 or 3 (2 is also a can id).        *)

PairEntry(key, stats) == [key |-> key, stats |-> stats]

LossKeys == {Pair(J(1), J(2)), Pair(J(2), J(1))}

LossStats == {Stats(5, J(t), J(s)) : t \in 0..MaxCount, s \in {0, MaxCount}}

LossSnapshots ==
    {<<PairEntry(k, st)>> : k \in LossKeys, st \in LossStats}
    \cup {<<PairEntry(Pair(J(1), J(2)), Stats(9, J(t), J(1))),
            PairEntry(Pair(J(2), J(1)), Stats(5, J(0), J(t)))>> : t \in {1, MaxCount}}
    \cup {<<PairEntry([form |-> "garbage"], Stats(5, J(1), J(1)))>>,
          <<PairEntry(Pair(W("word", 0), J(2)), Stats(5, J(1), J(1)))>>,
          <<PairEntry(Pair(W("str", 1), W("float", 2)), Stats(5, W("str", 1), W("null", 0)))>>,
          <<PairEntry(Pair(J(1), J(2)), Stats(5, W("word", 0), J(1))),
            PairEntry(Pair(J(2), J(1)), Stats(5, J(1), J(1)))>>,
          <<PairEntry(Pair(J(1), J(2)), Stats(5, J(1), W("inf", 0))),
            PairEntry(Pair(J(2), J(1)), Stats(5, J(1), J(1)))>>}

LossLines ==
    {Msg(Metrics(10, 0, 0, ps)) : ps \in LossSnapshots}
    \cup {MsgSinkFails(Metrics(10, 0, 0, <<PairEntry(Pair(J(1), J(2)), Stats(5, J(1), J(1)))>>),
                       k, e) : k \in {6, 7}, e \in {"ValueError", "RuntimeError"}}
    \cup {Msg(Mapping(<< >>, ids, << >>)) :
             ids \in {<<Entry(W("str", 1), J(3))>>, <<Entry(W("str", 2), J(3))>>,
                      <<Entry(W("str", 1), J(2))>>}}

NextLoss ==
    /\ can_steps < MaxLossLines
    /\ CanRecv("c1", LossLines)
    /\ UNCHANGED <<arm_vars, wire_vars, prod_vars, lamp_vars>>

SpecLoss == InitCanOnly /\ [][NextLoss]_vars

-----------------------------------------------------------------------------
(* The mapping registry and the router: mapping messages whose entries are *)
(* spelled in every way IntOf distinguishes, between messages of the other *)
(* types, a ping, a message of an unknown type and one without a type.     *)

MapNames ==
    {<<Entry(W("str", 1), "shoulder")>>, <<Entry(W("str", 1), "wrist")>>,
     <<Entry(W("word", 0), "elbow"), Entry(W("str", 2), "elbow")>>}

MapIds ==
    {<<Entry(W("str", 1), J(3))>>, <<Entry(W("str", 1), J(4))>>,
     <<Entry(W("str", 2), J(3))>>, <<Entry(W("str", 1), W("str", 4))>>,
     <<Entry(W("str", 2), W("float", 3))>>,
     <<Entry(W("word", 0), J(3)), Entry(W("str", 2), J(4))>>,
     <<Entry(W("str", 1), W("word", 0)), Entry(W("str", 2), J(4))>>,
     <<Entry(W("str", 1), W("null", 0)), Entry(W("str", 2), J(3))>>,
     <<Entry(W("str", 1), W("inf", 0)), Entry(W("str", 2), J(3))>>,
     <<Entry(W("str", 1), J(3)), Entry(W("pad", 1), J(4))>>}

MapSendRecv ==
    {<<Entry(W("str", 1), J(2))>>, <<Entry(W("str", 2), J(1))>>,
     <<Entry(W("str", 1), W("word", 0)), Entry(W("str", 2), J(2))>>,
     <<Entry(W("str", 1), W("inf", 0)), Entry(W("str", 2), J(2))>>}

MapLines ==
    {Msg(Mapping(n, << >>, << >>)) : n \in MapNames}
    \cup {Msg(Mapping(<< >>, i, << >>)) : i \in MapIds}
    \cup {Msg(Mapping(<< >>, << >>, c)) : c \in MapSendRecv}
    \cup {Msg(Mapping(<<Entry(W("str", 2), "base")>>, i, <<Entry(W("str", 2), J(5))>>)) :
             i \in MapIds}
    \cup {Msg([type |-> "mapping", data |-> EmptyMap]),
          Msg(Metrics(60, 0, 0, <<PairEntry(Pair(J(1), J(2)), Stats(5, J(1), J(1)))>>)),
          Msg(Metrics(10, 0, 0, << >>)),
          Msg(Event("drop", J(17))), Msg(Event("watchdog", W("str", 17))),
          Msg(Ping), Msg(Unknown), Msg([data |-> EmptyMap])}

NextMap ==
    /\ can_steps < MaxMapLines
    /\ CanRecv("c1", MapLines)
    /\ UNCHANGED <<arm_vars, wire_vars, prod_vars, lamp_vars>>

SpecMap == InitCanOnly /\ [][NextMap]_vars

-----------------------------------------------------------------------------
(* Lines that do not decode, between lines that do, on a connection of     *)
(* each server; the arm server with and without an idle timeout and the    *)
(* drop flag.                                                              *)

DecodeCanLines ==
    {RawLine("badjson"), RawLine("badutf8"),
     Msg(Metrics(60, 0, 0, << >>)),
     Msg(Mapping(<< >>, <<Entry(W("str", 1), J(3))>>, << >>))}

DecodeArmLines ==
    {ArmRaw("badjson", FALSE), ArmRaw("badjson", TRUE),
     ArmRaw("badutf8", FALSE), ArmRaw("badutf8", TRUE),
     ArmMsg(Sample(List(<<"num">>), List(<<"num">>), List(<<"num">>), List(<<"num">>)),
            FALSE),
     ArmMsg(CameraFrame("ok"), TRUE), ArmMsg(CameraFrame("ok"), FALSE),
     ArmMsg(ArmEventMsg("WARNING", "overheat"), FALSE)}

InitDecode ==
    /\ InitCanServing
    /\ WireIdle
    /\ ProducerConstructed /\ LampConstructed
    /\ \E timeout_arg \in {NoTimeout, Timeout(0), Timeout(1)} :
          \E drop_arg \in BOOLEAN : InitArmServing(timeout_arg, drop_arg)

DecodeCan ==
    /\ can_steps + arm_steps < MaxDecodeLines
    /\ CanRecv("c1", DecodeCanLines)
    /\ UNCHANGED <<arm_vars, wire_vars, prod_vars, lamp_vars>>

DecodeArm ==
    /\ can_steps + arm_steps < MaxDecodeLines
    /\ ArmRecv("c1", DecodeArmLines)
    /\ UNCHANGED <<can_vars, wire_vars, prod_vars, lamp_vars>>

DecodeTick == ArmTick /\ UNCHANGED <<can_vars, wire_vars, prod_vars, lamp_vars>>

NextDecode == DecodeCan \/ DecodeArm \/ DecodeTick

SpecDecode == InitDecode /\ [][NextDecode]_vars

-----------------------------------------------------------------------------
(* Both servers through their life: start(), connections accepted, lines   *)
(* written by the peers into the readers' buffers and read by the          *)
(* handlers one at a time, stop().                                         *)

(* Bound: lines written by all peers together in one run of SpecServe (the *)
(* closing of a connection by its peer is not counted).                    *)
MaxServeLines == 3

ServeCanLines ==
    {Msg(Metrics(90, 0, 0, << >>)),
     MsgSinkFails(Metrics(60, 0, 0, << >>), 1, "RuntimeError"),
     Msg(Mapping(<< >>, <<Entry(W("str", 1), W("inf", 0))>>, << >>)),
     RawLine("notobject"), RawLine("badjson"),
     RawLine("reset"), RawLine("toolong")}

ServeArmLines ==
    {ArmMsg(Sample(List(<<"num">>), List(<<"num">>), List(<<"num">>), List(<<"num">>)),
            FALSE),
     ArmMsg(Sample(List(<<"word">>), List(<<"num">>), List(<<"num">>), List(<<"num">>)),
            FALSE),
     ArmRaw("notobject", FALSE), ArmRaw("badutf8", FALSE),
     ArmRaw("reset", FALSE), ArmRaw("toolong", FALSE)}

Eof(s) == IF s = "can" THEN RawLine("eof") ELSE ArmRaw("eof", FALSE)

LinesSent ==
    Len(SelectSeq(sent["can"]["c1"] \o sent["can"]["c2"]
                  \o sent["arm"]["c1"] \o sent["arm"]["c2"],
                  LAMBDA line : line.kind # "eof"))

Pc(s) == IF s = "can" THEN can_pc ELSE arm_pc

(* The peer of connection c of server s can still write: the connection is *)
(* open and the peer has neither closed nor broken it.                     *)
PeerOpen(s, c) ==
    /\ Pc(s)[c] \in {"new", "await"}
    /\ \A i \in 1..Len(sent[s][c]) : ~EndsLoop(sent[s][c][i])

(* The transport feeds the StreamReader: the bytes wait in its buffer      *)
(* until readline() takes them.                                            *)
Feed(s, c, line) ==
    /\ inbox' = [inbox EXCEPT ![s][c] = Append(@, line)]
    /\ sent' = [sent EXCEPT ![s][c] = Append(@, line)]
    /\ UNCHANGED done

Running(s) == IF s = "can" THEN can_running ELSE arm_running

Listening(s) == IF s = "can" THEN can_listening ELSE arm_listening

(* A peer writes while the bound allows; to a handler left waiting on an   *)
(* empty buffer by stop() it can always write one more line.               *)
PeerSend(s, c, lines, max) ==
    /\ PeerOpen(s, c)
    /\ \/ LinesSent < max
       \/ ~Running(s) /\ sent[s][c] = << >>
    /\ \E line \in lines : Feed(s, c, line)

PeerClose(s, c) == PeerOpen(s, c) /\ Feed(s, c, Eof(s))

(* readline() (can line 127, arm line 220) returns the oldest line of the  *)
(* buffer.                                                                 *)
NextLine(buffer) == Head(buffer)

Taken(s, c) ==
    /\ inbox' = [inbox EXCEPT ![s][c] = Tail(@)]
    /\ done' = [done EXCEPT ![s][c] = Append(@, NextLine(inbox[s][c]))]
    /\ UNCHANGED sent

CanRead(c) ==
    /\ inbox["can"][c] # << >>
    /\ CanLine(c, NextLine(inbox["can"][c]))
    /\ Taken("can", c)

ArmRead(c) ==
    /\ inbox["arm"][c] # << >>
    /\ ArmLine(c, NextLine(inbox["arm"][c]))
    /\ Taken("arm", c)

(* start() is followed while no handler task of the server exists.  The   *)
(* two servers are separate objects that share no field, so a run follows  *)
(* one of them and leaves the other as constructed.                        *)
ServeCanStart ==
    /\ \A c \in Conns : can_pc[c] = "none" /\ arm_pc[c] = "none"
    /\ ~arm_listening
    /\ CanStart
    /\ UNCHANGED <<arm_vars, wire_vars, prod_vars, lamp_vars>>

ServeCanStop == CanStop /\ UNCHANGED <<arm_vars, wire_vars, prod_vars, lamp_vars>>

ServeCanAccept ==
    \E c \in Conns : CanAccept(c) /\ UNCHANGED <<arm_vars, wire_vars, prod_vars, lamp_vars>>

ServeCanEnter ==
    \E c \in Conns : CanEnter(c) /\ UNCHANGED <<arm_vars, wire_vars, prod_vars, lamp_vars>>

ServeCanSend ==
    \E c \in Conns :
       /\ PeerSend("can", c, ServeCanLines, MaxServeLines)
       /\ UNCHANGED <<can_vars, arm_vars, prod_vars, lamp_vars>>

ServeCanClose ==
    \E c \in Conns :
       PeerClose("can", c) /\ UNCHANGED <<can_vars, arm_vars, prod_vars, lamp_vars>>

ServeCanRead == \E c \in Conns : CanRead(c) /\ UNCHANGED <<arm_vars, prod_vars, lamp_vars>>

ServeArmStart ==
    /\ \A c \in Conns : arm_pc[c] = "none" /\ can_pc[c] = "none"
    /\ ~can_listening
    /\ ArmStart
    /\ UNCHANGED <<can_vars, wire_vars, prod_vars, lamp_vars>>

ServeArmStop == ArmStop /\ UNCHANGED <<can_vars, wire_vars, prod_vars, lamp_vars>>

ServeArmAccept ==
    \E c \in Conns : ArmAccept(c) /\ UNCHANGED <<can_vars, wire_vars, prod_vars, lamp_vars>>

ServeArmEnter ==
    \E c \in Conns : ArmEnter(c) /\ UNCHANGED <<can_vars, wire_vars, prod_vars, lamp_vars>>

ServeArmSend ==
    \E c \in Conns :
       /\ PeerSend("arm", c, ServeArmLines, MaxServeLines)
       /\ UNCHANGED <<can_vars, arm_vars, prod_vars, lamp_vars>>

ServeArmClose ==
    \E c \in Conns :
       PeerClose("arm", c) /\ UNCHANGED <<can_vars, arm_vars, prod_vars, lamp_vars>>

ServeArmRead == \E c \in Conns : ArmRead(c) /\ UNCHANGED <<can_vars, prod_vars, lamp_vars>>

(* Both servers constructed, neither started.                              *)
InitServe == InitCanIdle /\ InitArmIdle /\ WireIdle /\ ProducerConstructed /\ LampConstructed

NextServe ==
    \/ ServeCanStart \/ ServeCanStop \/ ServeCanAccept \/ ServeCanEnter
    \/ ServeCanSend \/ ServeCanClose \/ ServeCanRead
    \/ ServeArmStart \/ ServeArmStop \/ ServeArmAccept \/ ServeArmEnter
    \/ ServeArmSend \/ ServeArmClose \/ ServeArmRead

SpecServe == InitServe /\ [][NextServe]_vars

-----------------------------------------------------------------------------
(* The same life of the servers with its fairness: the event loop runs     *)
(* every handler task that is ready (created, or with a line in its        *)
(* reader's buffer), and every connected peer eventually writes a line or  *)
(* closes its end.                                                         *)

(* Bound: lines written by all peers together in one run of SpecStop,      *)
(* beside the one a peer can always write after stop().                    *)
MaxStopLines == 2

ServeLines(s) == IF s = "can" THEN ServeCanLines ELSE ServeArmLines

PeerActs(s, c) ==
    /\ PeerClose(s, c) \/ PeerSend(s, c, ServeLines(s), MaxStopLines)
    /\ UNCHANGED <<can_vars, arm_vars, prod_vars, lamp_vars>>

(* The first step of the handler task of connection c.                     *)
Enter(s, c) ==
    IF s = "can" THEN CanEnter(c) /\ UNCHANGED <<arm_vars, wire_vars, prod_vars, lamp_vars>>
    ELSE ArmEnter(c) /\ UNCHANGED <<can_vars, wire_vars, prod_vars, lamp_vars>>

(* readline() returning to the handler of connection c: the part of        *)
(* CanRead and ArmRead on the streams; a handler in readline() with a line *)
(* in the buffer can always take it.                                       *)
Take(s, c) ==
    /\ Pc(s)[c] = "await"
    /\ inbox[s][c] # << >>
    /\ Taken(s, c)

StopCanSend ==
    \E c \in Conns :
       /\ PeerSend("can", c, ServeCanLines, MaxStopLines)
       /\ UNCHANGED <<can_vars, arm_vars, prod_vars, lamp_vars>>

StopArmSend ==
    \E c \in Conns :
       /\ PeerSend("arm", c, ServeArmLines, MaxStopLines)
       /\ UNCHANGED <<can_vars, arm_vars, prod_vars, lamp_vars>>

NextStop ==
    \/ ServeCanStart \/ ServeCanStop \/ ServeCanAccept \/ ServeCanEnter
    \/ StopCanSend \/ ServeCanClose \/ ServeCanRead
    \/ ServeArmStart \/ ServeArmStop \/ ServeArmAccept \/ ServeArmEnter
    \/ StopArmSend \/ ServeArmClose \/ ServeArmRead

StopFairness ==
    \A s \in Servers : \A c \in Conns :
        /\ WF_vars(Enter(s, c))
        /\ WF_wire_vars(Take(s, c))
        /\ WF_vars(PeerActs(s, c))

SpecStop == InitServe /\ [][NextStop]_vars /\ StopFairness

-----------------------------------------------------------------------------
(* Samples on a connection of the arm server: the four required vectors of *)
(* different lengths, with elements float() accepts and elements it does   *)
(* not, the optional vectors absent, shorter and longer than the required  *)
(* ones, caller-supplied joint names, and a sink that fails.               *)

(* Bound: lines handled in one run of SpecSample.                          *)
MaxSampleLines == 2

SampleWith(target, pos, vel, torque, opt) ==
    [type |-> "sample",
     data |-> [target |-> target, pos |-> pos, vel |-> vel, torque |-> torque,
               traj |-> opt, vel_filtered |-> opt, vel_boundary |-> opt,
               traj_vel_filtered |-> opt, acc_filtered |-> opt,
               joint_names |-> List(<<"shoulder", "elbow">>)]]

SampleTargets ==
    {List(<< >>), List(<<"num">>), List(<<"num", "num">>), List(<<"num", "word">>)}

SamplePoss == {List(<<"num">>), List(<<"num", "num">>), List(<<"null", "num">>)}

SampleVels == {List(<<"num", "num">>), List(<<"num", "num", "num">>)}

SampleTorques == {List(<<"num">>), List(<<"num", "num">>), List(<<"num", "word">>)}

SampleOpts ==
    {NotAList, List(<<"num">>), List(<<"num", "num", "num">>), List(<<"word", "num">>)}

TwoJoints == List(<<"num", "num">>)

SampleLines ==
    {ArmMsg(SampleWith(t, p, v, q, o), FALSE) :
        t \in SampleTargets, p \in SamplePoss, v \in SampleVels,
        q \in SampleTorques, o \in SampleOpts}
    \cup {ArmMsg(Sample(NotAList, TwoJoints, TwoJoints, TwoJoints), FALSE),
          ArmMsg(Sample(TwoJoints, TwoJoints, TwoJoints, NotAList), FALSE),
          ArmMsg([type |-> "sample", data |-> EmptyMap], FALSE)}
    \cup {[ArmMsg(SampleWith(TwoJoints, TwoJoints, TwoJoints, TwoJoints,
                             List(<<"num">>)), FALSE)
              EXCEPT !.failAt = k, !.failKind = "RuntimeError"] : k \in {1, 2, 6, 9}}

InitSample ==
    /\ InitCanIdle
    /\ InitArmServing(NoTimeout, FALSE)
    /\ WireIdle
    /\ ProducerConstructed /\ LampConstructed

SampleArm ==
    /\ arm_steps < MaxSampleLines
    /\ ArmRecv("c1", SampleLines)
    /\ UNCHANGED <<can_vars, wire_vars, prod_vars, lamp_vars>>

NextSample == SampleArm

SpecSample == InitSample /\ [][NextSample]_vars

-----------------------------------------------------------------------------
(* Camera frames and samples on a connection of the arm server while the   *)
(* clock runs, with and without an idle timeout and the drop flag: frames  *)
(* whose bytes hold the marker of the fast path and frames written with    *)
(* other separators, payloads that decode and payloads that do not, and a  *)
(* sample whose bytes hold the marker inside a field.                      *)

(* Bound: lines handled in one run of SpecIdle.                            *)
MaxIdleLines == 4

OneJoint == List(<<"num">>)

IdleLines ==
    {ArmMsg(CameraFrame("ok"), TRUE), ArmMsg(CameraFrame("ok"), FALSE),
     ArmMsg(CameraFrame("badb64"), TRUE), ArmMsg(CameraFrame("empty"), FALSE),
     ArmMsg(CameraFrame("notstr"), TRUE),
     ArmMsg(Sample(OneJoint, OneJoint, OneJoint, OneJoint), FALSE),
     ArmMsg(Sample(OneJoint, OneJoint, OneJoint, OneJoint), TRUE),
     ArmMsg(Sample(NotAList, OneJoint, OneJoint, OneJoint), FALSE),
     ArmMsg(ArmEventMsg("WARNING", "overheat"), FALSE)}

InitIdle ==
    /\ InitCanIdle
    /\ WireIdle
    /\ ProducerConstructed /\ LampConstructed
    /\ \E timeout_arg \in {NoTimeout, Timeout(0), Timeout(1)} :
          \E drop_arg \in BOOLEAN : InitArmServing(timeout_arg, drop_arg)

IdleArm ==
    /\ arm_steps < MaxIdleLines
    /\ ArmRecv("c1", IdleLines)
    /\ UNCHANGED <<can_vars, wire_vars, prod_vars, lamp_vars>>

IdleTick == ArmTick /\ UNCHANGED <<can_vars, wire_vars, prod_vars, lamp_vars>>

NextIdle == IdleArm \/ IdleTick

SpecIdle == InitIdle /\ [][NextIdle]_vars

-----------------------------------------------------------------------------
(* Observations on the last handled line.                                  *)

LastIsMsg == can_last.line.kind = "msg"

LastType == IF LastIsMsg THEN GetOr(can_last.line.msg, "type", "null") ELSE "none"

LastData == can_last.line.msg.data

(* The last line was a metrics message that _handle_metrics ran to its end *)
LastMetricsCompleted == LastType = "metrics" /\ can_last.exc = "none"

(* C1: after a metrics message processed to completion, the computed level *)
(* and the stored status are ERROR if bus_load >= 80 or error_rate > 1.0,  *)
(* else WARNING if bus_load >= 50 or error_rate > 0.1 or drop_rate > 0.1,  *)
(* else INFO, whatever the status was before.                              *)
C1_StatusFollowsThresholds ==
    LastMetricsCompleted =>
        LET bus  == GetOr(LastData, "bus_load_percent", 0)
            err  == GetOr(LastData, "error_frames_per_second", 0)
            drop == GetOr(LastData, "dropped_frames_per_second", 0)
            expected ==
                IF bus >= 80 \/ err > 100 THEN "ERROR"
                ELSE IF bus >= 50 \/ err > 10 \/ drop > 10 THEN "WARNING"
                ELSE "INFO"
        IN  can_last.level = expected /\ last_status = expected

(* A metrics message exactly on the ERROR threshold of the bus load, when  *)
(* the stored status was INFO, and one below every threshold when it was   *)
(* ERROR.                                                                  *)
C1_Witness ==
    /\ LastMetricsCompleted
    /\ GetOr(LastData, "bus_load_percent", 0) = 80
    /\ GetOr(LastData, "error_frames_per_second", 0) = 10
    /\ can_last.was_status = "INFO"
    /\ last_status = "ERROR"

(* C2: a metrics message emits a status document to notify/dashboard iff   *)
(* its computed level differs from the level stored before it; the stored  *)
(* level starts as INFO and follows the computed level, so the number of   *)
(* documents emitted equals the number of messages whose computed level    *)
(* differs from that of the preceding message.                             *)
C2_DocumentIffLevelChanges ==
    /\ (LastType = "metrics" /\ can_last.level # "none") =>
          CountDocs(can_last.out) =
              (IF can_last.level # can_last.was_status THEN 1 ELSE 0)
    /\ can_docs = can_changes
    /\ last_status = can_prev_level

(* Levels INFO, WARNING, ERROR, INFO: three documents over four messages.  *)
C2_Witness ==
    /\ can_steps = 4
    /\ can_docs = 3
    /\ can_last.level = "INFO"
    /\ can_last.was_status = "ERROR"
    /\ can_last.line.failAt = 0

(* C3: an event, mapping, ping or unknown-type message leaves the stored   *)
(* status level and status message unchanged and emits no status document. *)
C3_OnlyMetricsChangeStatus ==
    [][(can_steps' = can_steps + 1 /\ can_last'.line.kind = "msg"
          /\ GetOr(can_last'.line.msg, "type", "null") # "metrics")
       => /\ last_status' = last_status
          /\ status_message' = status_message
          /\ can_docs' = can_docs
          /\ CountDocs(can_last'.out) = 0]_vars

(* An error_frame event handled while the stored status is WARNING.        *)
C3_Witness ==
    /\ LastType = "event"
    /\ GetOr(LastData, "event_type", "unknown") = "error_frame"
    /\ can_last.exc = "none"
    /\ last_status = "WARNING"

-----------------------------------------------------------------------------
(* Observations on the pairs of the last metrics message.                  *)

LastPairs == GetOr(LastData, "per_pair_rtt", << >>)

LastOut == can_last.out

LastPairLog == can_last.pairlog

CountsOf(counts, joint_id) ==
    IF joint_id \in DOMAIN counts THEN counts[joint_id] ELSE <<0, 0>>

(* C4: every loss rate emitted lies in [0, 1]; with cumulative counts      *)
(* lower than the stored ones (a reconnect) the deltas are clamped at zero *)
(* and the rate is not negative.                                           *)
C4_LossRateInUnitInterval ==
    /\ \A i \in 1..Len(LastOut) :
          LastOut[i].p = "can/loss/<joint>" =>
              /\ 0 <= LastOut[i].num
              /\ LastOut[i].num <= LastOut[i].den
              /\ 1 <= LastOut[i].den
    /\ \A i \in 1..Len(LastPairLog) :
          \E k \in 1..Len(LastOut) :
              /\ LastOut[k].p = "can/loss/<joint>"
              /\ LastOut[k].id = LastPairLog[i].joint
              /\ <<LastOut[k].num, LastOut[k].den>> = LastPairLog[i].loss

(* A snapshot whose counts are both lower than the stored ones.            *)
C4_Witness ==
    /\ LastMetricsCompleted
    /\ \E i \in 1..Len(LastPairLog) :
          LET r == LastPairLog[i]
          IN  /\ r.timeout < CountsOf(r.before, r.joint)[1]
              /\ r.sample < CountsOf(r.before, r.joint)[2]
              /\ r.loss = <<0, 1>>

(* C5: the loss rate of a pair is delta_timeout / max(1, delta_timeout +   *)
(* delta_sample), the deltas being the clamped differences between the     *)
(* snapshot's counts and the counts stored before the pair ((0, 0) when    *)
(* none), and after the pair the stored counts are the snapshot's counts.  *)
C5_LossRateFromClampedDeltas ==
    LastType = "metrics" =>
      /\ \A i \in 1..Len(LastPairLog) :
          LET r    == LastPairLog[i]
              prev == CountsOf(r.before, r.joint)
              dt   == IF r.timeout > prev[1] THEN r.timeout - prev[1] ELSE 0
              ds   == IF r.sample > prev[2] THEN r.sample - prev[2] ELSE 0
              den  == IF dt + ds >= 1 THEN dt + ds ELSE 1
          IN  /\ r.loss = <<dt, den>>
              /\ r.joint \in DOMAIN r.after
              /\ r.after[r.joint] = <<r.timeout, r.sample>>
              /\ \E k \in 1..Len(LastPairs) :
                    LET e == LastPairs[k]
                    IN  /\ e.key.form = "pair"
                        /\ e.key = r.key
                        /\ (e.stats.timeout_count.t = "int"
                              => e.stats.timeout_count.v = r.timeout)
                        /\ (e.stats.sample_count.t = "int"
                              => e.stats.sample_count.v = r.sample)
              /\ \E k \in 1..Len(LastOut) :
                    /\ LastOut[k].p = "can/loss/<joint>"
                    /\ LastOut[k].id = r.joint
                    /\ LastOut[k].num = dt
                    /\ LastOut[k].den = den
              /\ (i < Len(LastPairLog) => LastPairLog[i + 1].before = r.after)
      /\ (LastPairLog # << >> =>
              last_pair_counts = LastPairLog[Len(LastPairLog)].after)

(* Counts (1, 0) received when (MaxCount, MaxCount) was stored: the rate   *)
(* is 0/1 and (1, 0) is stored.                                            *)
C5_Witness ==
    /\ LastMetricsCompleted
    /\ Len(LastPairLog) = 1
    /\ LET r == LastPairLog[1]
       IN  /\ CountsOf(r.before, r.joint) = <<MaxCount, MaxCount>>
           /\ r.timeout = 1
           /\ r.sample = 0
           /\ CountsOf(last_pair_counts, r.joint) = <<1, 0>>

IntCoercible(x) == x.t \in {"int", "str", "pad", "float"}

(* The joint id of a pair as the registry resolves it: recv first, then    *)
(* send, then the raw recv id.                                             *)
ExpectedJoint(key) ==
    IF key.recv.v \in DOMAIN can_id_to_joint_id
    THEN can_id_to_joint_id[key.recv.v]
    ELSE IF IntCoercible(key.send) /\ key.send.v \in DOMAIN can_id_to_joint_id
    THEN can_id_to_joint_id[key.send.v]
    ELSE key.recv.v

JointPaths == {"can/rtt/<joint>", "can/loss/<joint>"}

(* C6: the RTT and loss series of a pair are recorded under the joint id   *)
(* mapped to recv_id, else the one mapped to send_id, else the raw         *)
(* recv_id, and never under the pair's key.                                *)
C6_RecordedUnderResolvedJoint ==
    LastType = "metrics" =>
      /\ \A i \in 1..Len(LastOut) :
            LastOut[i].p \in JointPaths =>
              /\ LastOut[i].id \in Int
              /\ \E k \in 1..Len(LastPairs) :
                    /\ LastPairs[k].key.form = "pair"
                    /\ IntCoercible(LastPairs[k].key.recv)
                    /\ LastOut[i].id = ExpectedJoint(LastPairs[k].key)
      /\ \A i \in 1..Len(LastPairLog) :
            LastPairLog[i].joint = ExpectedJoint(LastPairLog[i].key)
      /\ (can_last.exc = "none" /\ can_last.line.failAt = 0) =>
            \A k \in 1..Len(LastPairs) :
              LET e == LastPairs[k]
              IN  (/\ e.key.form = "pair"
                   /\ IntCoercible(e.key.recv)
                   /\ IntCoercible(e.key.send)
                   /\ e.stats.form = "dict"
                   /\ IntCoercible(e.stats.timeout_count)
                   /\ IntCoercible(e.stats.sample_count))
                  => \A p \in JointPaths :
                        \E i \in 1..Len(LastOut) :
                            /\ LastOut[i].p = p
                            /\ LastOut[i].id = ExpectedJoint(e.key)

(* recv id 2 has no joint id and send id 1 has one: the pair is recorded   *)
(* under the joint id of the send id.                                      *)
C6_Witness ==
    /\ LastMetricsCompleted
    /\ 1 \in DOMAIN can_id_to_joint_id
    /\ 2 \notin DOMAIN can_id_to_joint_id
    /\ \E i \in 1..Len(LastPairLog) :
          /\ LastPairLog[i].key = Pair(J(1), J(2))
          /\ LastPairLog[i].joint = can_id_to_joint_id[1]
    /\ \E i \in 1..Len(LastOut) :
          /\ LastOut[i].p = "can/rtt/<joint>"
          /\ LastOut[i].id = can_id_to_joint_id[1]

-----------------------------------------------------------------------------
(* Observations on a step that handled a mapping message.                  *)

MappingStep ==
    /\ can_steps' = can_steps + 1
    /\ can_last'.line.kind = "msg"
    /\ GetOr(can_last'.line.msg, "type", "null") = "mapping"

StepEntries(field) == GetOr(can_last'.line.msg.data, field, << >>)

(* An entry that can be applied: its key, and for the integer maps its     *)
(* value, can be coerced to an integer.                                    *)
Applicable(e, intValue) ==
    IntCoercible(e.k) /\ (intValue => IntCoercible(e.v))

CarriedAt(entries, k, intValue) ==
    {i \in 1..Len(entries) :
        Applicable(entries[i], intValue) /\ entries[i].k.v = k}

Latest(S) == CHOOSE i \in S : \A j \in S : j <= i

(* map2 is map merged with the applicable entries: a key that an           *)
(* applicable entry carries has the value of the last such entry, every    *)
(* other key is as it was, present or absent.                              *)
Merged(map, map2, entries, intValue) ==
    \A k \in DOMAIN map \cup DOMAIN map2
               \cup {entries[i].k.v : i \in 1..Len(entries)} :
        LET at == CarriedAt(entries, k, intValue)
        IN  IF at # {}
            THEN /\ k \in DOMAIN map2
                 /\ map2[k] = (IF intValue THEN entries[Latest(at)].v.v
                               ELSE entries[Latest(at)].v)
            ELSE /\ (k \in DOMAIN map2 <=> k \in DOMAIN map)
                 /\ (k \in DOMAIN map => map2[k] = map[k])

RegistryMerged ==
    /\ Merged(can_id_to_name, can_id_to_name', StepEntries("joint_names"), FALSE)
    /\ Merged(can_id_to_joint_id, can_id_to_joint_id', StepEntries("joint_ids"), TRUE)
    /\ Merged(can_id_map, can_id_map', StepEntries("can_id_map"), TRUE)

HasUncoercible(entries, intValue) ==
    \E i \in 1..Len(entries) : ~Applicable(entries[i], intValue)

(* C7: a mapping message merges into the registry: each of the three maps  *)
(* holds, for every key, the value of the latest message that carried the  *)
(* key, and keys the message does not mention keep their earlier value.    *)
C7_MappingMerges == [][MappingStep => RegistryMerged]_vars

(* C8: a mapping entry whose key or (for the integer maps) value cannot be *)
(* coerced to an integer is skipped without raising and without touching   *)
(* the registry, and the other entries of the same message are applied.    *)
C8_UncoercibleEntrySkipped ==
    [][(/\ MappingStep
        /\ \/ HasUncoercible(StepEntries("joint_names"), FALSE)
           \/ HasUncoercible(StepEntries("joint_ids"), TRUE)
           \/ HasUncoercible(StepEntries("can_id_map"), TRUE))
       => /\ can_last'.exc = "none"
          /\ RegistryMerged]_vars

(* C9: the router hands each message to one handler chosen by its type,    *)
(* once and with the message's data; a ping and a message of an unknown    *)
(* type reach no handler, raise no error and leave the registry, the       *)
(* status and the pair counts unchanged.                                   *)
C9_RouterDispatch ==
    [][(can_steps' = can_steps + 1 /\ can_last'.line.kind = "msg") =>
        LET message  == can_last'.line.msg
            msg_type == GetOr(message, "type", "null")
        IN  IF msg_type \in {"metrics", "event", "mapping"}
            THEN can_last'.calls =
                     <<[handler |-> msg_type, data |-> GetOr(message, "data", EmptyMap)]>>
            ELSE /\ can_last'.calls = << >>
                 /\ can_last'.exc = "none"
                 /\ can_last'.out = << >>
                 /\ UNCHANGED <<can_id_to_name, can_id_to_joint_id, can_id_map,
                                last_status, status_message, last_pair_counts>>]_vars

(* A message of an unknown type handled when the registry, the status and  *)
(* the pair counts all differ from their initial values.                   *)
C9_Witness ==
    /\ LastType = "status"
    /\ can_last.calls = << >>
    /\ can_id_to_joint_id # EmptyMap
    /\ last_status = "WARNING"
    /\ last_pair_counts # EmptyMap

-----------------------------------------------------------------------------
(* Observations on a step in which a server handled a line that does not   *)
(* decode.                                                                 *)

Undecodable(line) == line.kind \in {"badjson", "badutf8"}

CanSkipStep == can_steps' = can_steps + 1 /\ Undecodable(can_last'.line)

ArmSkipStep == arm_steps' = arm_steps + 1 /\ Undecodable(arm_last'.line)

CanSkipped ==
    /\ UNCHANGED <<can_id_to_name, can_id_to_joint_id, can_id_map, last_status,
                   status_message, last_pair_counts, can_running>>
    /\ can_last'.out = << >>
    /\ can_pc'[can_last'.conn] = "await"

ArmSkipped ==
    /\ UNCHANGED <<blueprint_sent, joint_names, idle_timeout_s, drop_camera_when_idle,
                   last_arm_sample_mono_s, logged_idle_for_camera, arm_running>>
    /\ arm_last'.out = << >>
    /\ arm_pc'[arm_last'.conn] = "await"

(* C10: in the connection handlers of both servers a line that fails to    *)
(* decode (malformed JSON, or bytes that are not text) is skipped: no      *)
(* server state changes, the connection is not closed and its handler goes *)
(* on to read the next line.                                               *)
C10_UndecodableLineSkipped ==
    [][/\ CanSkipStep => CanSkipped
       /\ ArmSkipStep => ArmSkipped]_vars

-----------------------------------------------------------------------------
(* Observations on a metrics message one of whose sink calls raised.       *)

SinkFailed(out) == \E i \in 1..Len(out) : ~out[i].ok

ThresholdLevel(data) ==
    LET bus  == GetOr(data, "bus_load_percent", 0)
        err  == GetOr(data, "error_frames_per_second", 0)
        drop == GetOr(data, "dropped_frames_per_second", 0)
    IN  IF bus >= 80 \/ err > 100 THEN "ERROR"
        ELSE IF bus >= 50 \/ err > 10 \/ drop > 10 THEN "WARNING"
        ELSE "INFO"

MetricsSinkFailStep ==
    /\ can_steps' = can_steps + 1
    /\ can_last'.line.kind = "msg"
    /\ GetOr(can_last'.line.msg, "type", "null") = "metrics"
    /\ SinkFailed(can_last'.out)

(* The counts of every well-formed pair of the message are the stored ones *)
StepPairsStored ==
    LET pairs == GetOr(can_last'.line.msg.data, "per_pair_rtt", << >>)
    IN  \A k \in 1..Len(pairs) :
            (/\ pairs[k].key.form = "pair"
             /\ pairs[k].stats.form = "dict"
             /\ pairs[k].stats.timeout_count.t = "int"
             /\ pairs[k].stats.sample_count.t = "int")
            => \E j \in DOMAIN last_pair_counts' :
                  last_pair_counts'[j] = <<pairs[k].stats.timeout_count.v,
                                           pairs[k].stats.sample_count.v>>

(* C13: when a sink call raises while a metrics message is processed, the  *)
(* error is caught, the connection continues, and the stored health status *)
(* and pair-loss counts reflect that message all the same.                 *)
C13_SinkErrorKeepsState ==
    [][MetricsSinkFailStep =>
          /\ can_pc'[can_last'.conn] = "await"
          /\ last_status' = ThresholdLevel(can_last'.line.msg.data)
          /\ StepPairsStored]_vars

-----------------------------------------------------------------------------
(* Observations on one turn of a handler's loop under SpecServe.           *)

Processed == {"msg", "notobject"}

(* The handler of connection c decoded a line and its processing raised.   *)
CanRaisedStep(c) ==
    /\ can_steps' = can_steps + 1
    /\ can_last'.conn = c
    /\ can_last'.line.kind \in Processed
    /\ can_last'.exc # "none"

ArmRaisedStep(c) ==
    /\ arm_steps' = arm_steps + 1
    /\ arm_last'.conn = c
    /\ arm_last'.line.kind \in Processed
    /\ arm_last'.exc # "none"

(* The step took one line from connection c of server s and left every     *)
(* other connection of the server, its buffer and the listening socket as  *)
(* they were.                                                              *)
OthersUntouched(s, c) ==
    /\ inbox'[s][c] = Tail(inbox[s][c])
    /\ \A o \in Conns \ {c} :
          /\ Pc(s)'[o] = Pc(s)[o]
          /\ inbox'[s][o] = inbox[s][o]
          /\ done'[s][o] = done[s][o]
    /\ UNCHANGED <<can_listening, can_running, arm_listening, arm_running>>

(* C11: an exception raised while a decoded message is processed, in       *)
(* either server, is caught in the handler: while the server runs the      *)
(* handler is back in readline() with the later lines of its connection    *)
(* still in the buffer, and no other connection and not the listening      *)
(* socket is touched.                                                      *)
C11_ProcessingErrorContained ==
    [][\A c \in Conns :
          /\ CanRaisedStep(c) =>
                /\ can_pc'[c] = IF can_running THEN "await" ELSE "closed"
                /\ OthersUntouched("can", c)
          /\ ArmRaisedStep(c) =>
                /\ arm_pc'[c] = IF arm_running THEN "await" ELSE "closed"
                /\ OthersUntouched("arm", c)]_vars

(* A sample whose target is not a number raised on c1 of the arm server,   *)
(* and the sample sent after it on c1 was processed and logged its joint.  *)
C11_Witness ==
    /\ Len(done["arm"]["c1"]) = 2
    /\ done["arm"]["c1"][1].kind = "msg"
    /\ done["arm"]["c1"][1].msg.data.target = List(<<"word">>)
    /\ arm_last.conn = "c1"
    /\ arm_last.exc = "none"
    /\ arm_last.out # << >>
    /\ arm_pc["c1"] = "await"

Framing == {"reset", "toolong"}

(* readline() of connection c raised: the peer reset the connection or     *)
(* sent a line over the reader's limit.                                    *)
CanFramingStep(c) ==
    /\ can_steps' = can_steps + 1
    /\ can_last'.conn = c
    /\ can_last'.line.kind \in Framing

ArmFramingStep(c) ==
    /\ arm_steps' = arm_steps + 1
    /\ arm_last'.conn = c
    /\ arm_last'.line.kind \in Framing

(* C12: a framing error on a connection (a connection reset, or a line     *)
(* over the reader's limit) ends that connection only: its handler closes  *)
(* the writer, every other connection of the server keeps its handler and  *)
(* its buffered lines, the server goes on listening, and the state the     *)
(* server has accumulated is as it was.                                    *)
C12_FramingErrorEndsOneConnection ==
    [][\A c \in Conns :
          /\ CanFramingStep(c) =>
                /\ can_pc'[c] = "closed"
                /\ OthersUntouched("can", c)
                /\ UNCHANGED <<can_id_to_name, can_id_to_joint_id, can_id_map,
                               last_status, status_message, last_pair_counts>>
          /\ ArmFramingStep(c) =>
                /\ arm_pc'[c] = "closed"
                /\ OthersUntouched("arm", c)
                /\ UNCHANGED <<blueprint_sent, joint_names, last_arm_sample_mono_s,
                               logged_idle_for_camera>>]_vars

(* Connection c1 of the CAN server ended on a line over the limit while    *)
(* the status was ERROR; after it c2 had a mapping processed, and the      *)
(* server still listens.                                                   *)
C12_Witness ==
    /\ done["can"]["c1"] # << >>
    /\ done["can"]["c1"][Len(done["can"]["c1"])].kind = "toolong"
    /\ can_pc["c1"] = "closed"
    /\ can_last.conn = "c2"
    /\ can_last.handler = "mapping"
    /\ can_pc["c2"] = "await"
    /\ last_status = "ERROR"
    /\ can_listening

(* What readline() has returned on a connection, followed by what still    *)
(* waits in its buffer, is what the peer sent, in the order sent.          *)
OrderKept ==
    \A s \in Servers : \A c \in Conns : done[s][c] \o inbox[s][c] = sent[s][c]

Decodable(line) == line.kind \in Processed

(* A decodable line waits in the buffer of a connection whose handler has  *)
(* gone although the server runs and the peer has neither closed nor       *)
(* broken the connection before that line: it will never be read.          *)
Skipped(s, c) ==
    /\ Running(s)
    /\ Pc(s)[c] = "closed"
    /\ \A i \in 1..Len(done[s][c]) : ~EndsLoop(done[s][c][i])
    /\ \E i \in 1..Len(inbox[s][c]) :
          /\ Decodable(inbox[s][c][i])
          /\ \A j \in 1..(i - 1) : ~EndsLoop(inbox[s][c][j])

(* C14: the lines of a connection are read one at a time in the order they *)
(* arrived, each processed before the next is read, and while the server   *)
(* runs no decodable line is left out.                                     *)
C14_ArrivalOrder ==
    /\ OrderKept
    /\ \A s \in Servers : \A c \in Conns : ~Skipped(s, c)

(* The same for the CAN server alone.                                      *)
C14_CanArrivalOrder ==
    /\ OrderKept
    /\ \A c \in Conns : ~Skipped("can", c)

ReadStep(s, c) == done'[s][c] # done[s][c]

StopStep(s) == Running(s) /\ ~Running(s)'

HandlerAlive(s, c) == Pc(s)[c] \in {"new", "await"}

(* Every handler alive after stop() eventually has closed its writer.      *)
(* Without the fairness of SpecStop this does not hold: a handler whose    *)
(* peer stays silent waits in readline() for ever.                         *)
StoppedHandlersEnd ==
    \A s \in Servers : \A c \in Conns :
        (~Running(s) /\ HandlerAlive(s, c)) ~> (Pc(s)[c] = "closed")

-----------------------------------------------------------------------------
(* Observations on the last line handled by the arm server.                *)

ArmLastType ==
    IF arm_last.line.kind = "msg" THEN GetOr(arm_last.line.msg, "type", "null")
    ELSE "none"

ArmLastData == ArmData(arm_last.line.msg)

Required == {"target", "pos", "vel", "torque"}

(* The last line was a sample that reached the joint loop.                 *)
LastSampleOfLists ==
    /\ ArmLastType = "sample"
    /\ arm_last.path = "slow"
    /\ \A f \in Required : IsList(Vec(ArmLastData, f))

(* The least of the lengths of the four required vectors.                  *)
JointCount(data) ==
    LET lens == {Len(data[f].items) : f \in Required}
    IN  CHOOSE n \in lens : \A m \in lens : n <= m

SeriesPaths ==
    {"arm/joints/<name>/pos", "arm/joints/<name>/vel",
     "arm/joints/<name>/pos/tracking_error", "arm/joints/<name>/torque"}

AccPath == "arm/joints/<name>/acc"

(* The calls of `out` that log a value of joint i under `path`.            *)
SeriesCalls(out, path, i) ==
    {k \in 1..Len(out) : out[k].p = path /\ ~out[k].static /\ out[k].id = i}

(* No value is logged for a joint beyond the n-th.                         *)
NoneBeyond(out, n) ==
    \A k \in 1..Len(out) :
        out[k].p \in SeriesPaths \cup {AccPath} /\ ~out[k].static => out[k].id \in 1..n

(* The optional vector holds a value for joint i.                          *)
Present(data, field, i) ==
    /\ IsList(Vec(data, field))
    /\ i <= Len(data[field].items)
    /\ data[field].items[i] = "num"

Used(data, field, i) == IF Present(data, field, i) THEN "read" ELSE "default"

(* Joint i has exactly one value in each of the four series, the optional  *)
(* vectors were read for it where they hold a value and only there.        *)
JointEmitted(out, data, i) ==
    /\ \A path \in SeriesPaths : Cardinality(SeriesCalls(out, path, i)) = 1
    /\ \A k \in SeriesCalls(out, "arm/joints/<name>/pos", i) :
          out[k].detail = Used(data, "traj", i)
    /\ \A k \in SeriesCalls(out, "arm/joints/<name>/vel", i) :
          out[k].detail = <<Used(data, "vel_filtered", i), Used(data, "vel_boundary", i),
                            Used(data, "traj_vel_filtered", i)>>
    /\ Cardinality(SeriesCalls(out, AccPath, i))
          = IF Present(data, "acc_filtered", i) THEN 1 ELSE 0

FannedOut(out, data, n) ==
    /\ \A i \in 1..n : JointEmitted(out, data, i)
    /\ NoneBeyond(out, n)
    /\ arm_last.exc = "none"

(* float() accepts the first n elements of the four required vectors.      *)
RequiredNumeric(data, n) ==
    \A f \in Required : \A i \in 1..n : data[f].items[i] = "num"

ArmStep == arm_steps' = arm_steps + 1

BlueprintCalls(out) == {k \in 1..Len(out) : out[k].p = "blueprint"}

(* The step establishes the joint identifiers.                             *)
NamesEstablished == ArmStep /\ joint_names = << >> /\ joint_names' # << >>

(* The layout of the joint grid is sent in this step for n joints.         *)
LayoutSentFor(n) ==
    \E k \in BlueprintCalls(arm_last'.out) : arm_last'.out[k].id = n

(* C17: joint values are logged under the positional identifiers j1..jn    *)
(* whatever joint_names a sample carries; the layout of the joint grid is  *)
(* sent at most once over all samples, on the sample that first            *)
(* establishes the joint identifiers and for exactly its n joints.         *)
C17_LayoutOnceOnFirstNames ==
    [][/\ ArmStep /\ LastSampleOfLists' =>
             NoneBeyond(arm_last'.out, JointCount(ArmData(arm_last'.line.msg)))
       /\ ArmStep /\ blueprint_sent =>
             blueprint_sent' /\ BlueprintCalls(arm_last'.out) = {}
       /\ NamesEstablished =>
             /\ joint_names' = [i \in 1..JointCount(ArmData(arm_last'.line.msg)) |-> i]
             /\ LayoutSentFor(Len(joint_names'))]_vars

(* The same, where the layout may also have been sent by an earlier sample *)
(* that had no joint.                                                      *)
C17_LayoutOnceAtMost ==
    [][/\ ArmStep /\ LastSampleOfLists' =>
             NoneBeyond(arm_last'.out, JointCount(ArmData(arm_last'.line.msg)))
       /\ ArmStep /\ blueprint_sent =>
             blueprint_sent' /\ BlueprintCalls(arm_last'.out) = {}
       /\ NamesEstablished =>
             /\ joint_names' = [i \in 1..JointCount(ArmData(arm_last'.line.msg)) |-> i]
             /\ blueprint_sent \/ LayoutSentFor(Len(joint_names'))]_vars

-----------------------------------------------------------------------------
(* Observations on the idle spans of the arm server.                       *)

ArmLineType(line) ==
    IF line.kind = "msg" THEN GetOr(line.msg, "type", "null") ELSE "none"

(* An idle timeout is configured and drop-camera-when-idle is enabled.     *)
IdleConfigured == drop_camera_when_idle /\ idle_timeout_s.set

(* The number of idle-span events `what` among the sink calls `out`.       *)
Logged(out, what) ==
    Cardinality({k \in 1..Len(out) : IsIdleEvent(out[k]) /\ out[k].detail = what})

CameraCalls(out) == {k \in 1..Len(out) : out[k].p = "camera/<position>/<name>"}

(* The step handles a camera_frame with the arm idle: no sample for longer *)
(* than the timeout when the handler decides on the frame.                 *)
CameraIdleStep ==
    /\ ArmStep
    /\ ArmLineType(arm_last'.line) = "camera_frame"
    /\ IdleConfigured
    /\ mono' - last_arm_sample_mono_s > idle_timeout_s.s

(* The step handles a sample in an idle span whose 'pausing' was logged.   *)
SampleInSpanStep ==
    /\ ArmStep
    /\ ArmLineType(arm_last'.line) = "sample"
    /\ IdleConfigured
    /\ logged_idle_for_camera

(* 'pausing' and 'resumed' take turns, 'pausing' first.                    *)
Alternates(events) ==
    \A i \in 1..Len(events) :
        events[i] = IF i % 2 = 1 THEN "pausing" ELSE "resumed"

FrameDroppedInSpan ==
    CameraIdleStep =>
        /\ CameraCalls(arm_last'.out) = {}
        /\ Logged(arm_last'.out, "pausing") = IF logged_idle_for_camera THEN 0 ELSE 1
        /\ Logged(arm_last'.out, "resumed") = 0
        /\ logged_idle_for_camera'

SampleEndsSpan ==
    SampleInSpanStep =>
        /\ Logged(arm_last'.out, "resumed") = 1
        /\ Logged(arm_last'.out, "pausing") = 0
        /\ ~logged_idle_for_camera'

(* C18: with an idle timeout and the drop flag, the first camera_frame of  *)
(* an idle span is dropped and logs one 'pausing' event, further frames    *)
(* before a sample are dropped and log none, and the next sample logs one  *)
(* 'resumed' event and clears the idle-logged flag; so 'pausing' and       *)
(* 'resumed' alternate, 'pausing' first.                                   *)
C18_IdleSpanEvents ==
    [][FrameDroppedInSpan /\ SampleEndsSpan /\ Alternates(arm_events')]_vars

(* The marker of the fast path is in the bytes of camera frames only.      *)
MarkerOnFramesOnly(line) ==
    line.kind # "none" /\ line.marker => ArmLineType(line) = "camera_frame"

(* The same for the lines that hold the marker only as their type.         *)
C18_IdleSpanEventsOfPlainLines ==
    [][/\ FrameDroppedInSpan
       /\ MarkerOnFramesOnly(arm_last'.line) => SampleEndsSpan
       /\ Alternates(arm_events')]_vars

(* Two idle spans, each with its 'pausing' and its 'resumed'.              *)
TwoIdleSpans == arm_events = <<"pausing", "resumed", "pausing", "resumed">>

CameraStep == ArmStep /\ ArmLineType(arm_last'.line) = "camera_frame"

Jpeg(line) == GetOr(ArmData(line.msg), "jpeg", "notstr")

(* The conditions of the drop hold when the handler decides on the frame.  *)
DropConditions ==
    IdleConfigured /\ mono' - last_arm_sample_mono_s > idle_timeout_s.s

(* The frame went to the sink under camera/<position>/<name>, once.        *)
Forwarded(out) ==
    /\ Cardinality(CameraCalls(out)) = 1
    /\ \A k \in CameraCalls(out) : out[k].id = "left" /\ out[k].detail = "wrist"

NoIdleEventWithoutDrop ==
    ArmStep /\ ~IdleConfigured =>
        Logged(arm_last'.out, "pausing") = 0 /\ Logged(arm_last'.out, "resumed") = 0

(* C19 as stated: a camera_frame is dropped exactly when a timeout is      *)
(* configured, the drop flag is enabled and the arm is idle; in every      *)
(* other case a frame with a non-empty jpeg payload is decoded and         *)
(* forwarded under camera/<position>/<name>; and no 'pausing' or 'resumed' *)
(* event is logged when the timeout is absent or the flag disabled.        *)
C19_FrameForwardedUnlessIdle ==
    [][/\ CameraStep /\ Jpeg(arm_last'.line) \in {"ok", "badb64"} =>
             IF DropConditions THEN CameraCalls(arm_last'.out) = {}
             ELSE Forwarded(arm_last'.out)
       /\ NoIdleEventWithoutDrop]_vars

(* C19, amended: a camera_frame whose jpeg payload is a non-empty string   *)
(* that decodes as base64 is dropped exactly when a (positive) timeout is  *)
(* configured, the drop flag is enabled and the arm is idle, and is        *)
(* forwarded under camera/<position>/<name> in every other case; a frame   *)
(* with any other payload is never forwarded; and no 'pausing' or          *)
(* 'resumed' event is logged when the timeout is absent or the flag        *)
(* disabled.                                                               *)
C19_DecodableFrameForwardedUnlessIdle ==
    [][/\ CameraStep /\ Jpeg(arm_last'.line) = "ok" =>
             IF DropConditions THEN CameraCalls(arm_last'.out) = {}
             ELSE Forwarded(arm_last'.out)
       /\ CameraStep /\ Jpeg(arm_last'.line) # "ok" => CameraCalls(arm_last'.out) = {}
       /\ idle_timeout_s.set => idle_timeout_s.s > 0
       /\ NoIdleEventWithoutDrop]_vars

(* With the timeout and the drop flag, a frame was forwarded after an idle *)
(* span in which frames had been dropped.                                  *)
C19_Witness ==
    /\ IdleConfigured
    /\ ArmLastType = "camera_frame"
    /\ CameraCalls(arm_last.out) # {}
    /\ arm_events = <<"pausing", "resumed">>

-----------------------------------------------------------------------------
(* TelemetryProducer.log_event (producer.py, lines 229-252).  Strings are  *)
(* sequences of characters, so that the key of an event is built as the    *)
(* f-string of line 241 builds it.                                         *)

(* Bound: calls of log_event in one run.                                   *)
MaxEvents == 3

(* Bound: characters of a message.                                         *)
MaxMessageLen == 1

(* StatusLevel (enums.py): the members, and the value of each.             *)
StatusLevels == {"INFO", "WARNING", "ERROR"}

LevelValue(level) ==
    CASE level = "INFO" -> <<"I", "N", "F", "O">>
      [] level = "WARNING" -> <<"W", "A", "R", "N", "I", "N", "G">>
      [] level = "ERROR" -> <<"E", "R", "R", "O", "R">>

MessageChars == {"a", ":"}

Messages == UNION {[1..n -> MessageChars] : n \in 0..MaxMessageLen}

EventKeyMessageOnly(level, message) == message

(* Line 241: event_key = f"{level.value}:{message}".                       *)
EventKey(level, message) == LevelValue(level) \o <<":">> \o message

(* Line 247: the text of the entry, after the elapsed time in brackets     *)
(* (the reading of the clock is left out of the entry).                    *)
EventText(level, message) == LevelValue(level) \o <<":", " ">> \o message

(* log_event(level, message); rr.log (line 249) accepts the entry.         *)
LogEvent(level, message) ==
    /\ Len(events_seen) < MaxEvents
    /\ events_seen' = Append(events_seen, <<level, message>>)
    /\ IF level = "INFO"
       THEN UNCHANGED <<notify_log, event_logged>>
       ELSE IF EventKey(level, message) \in event_logged
       THEN UNCHANGED <<notify_log, event_logged>>
       ELSE /\ notify_log' = Append(notify_log, EventText(level, message))
            /\ event_logged' = event_logged \cup {EventKey(level, message)}

EventsLog ==
    \E level \in StatusLevels, message \in Messages :
        /\ LogEvent(level, message)
        /\ UNCHANGED <<can_vars, arm_vars, wire_vars, lamp_vars>>

(* A producer constructed; neither server started.                         *)
InitEvents == InitCanIdle /\ InitArmIdle /\ WireIdle /\ ProducerConstructed /\ LampConstructed

NextEvents == EventsLog

SpecEvents == InitEvents /\ [][NextEvents]_vars

(* The (level, message) pairs of level WARNING or ERROR among the calls.   *)
ReportablePairs(calls) ==
    {calls[i] : i \in {j \in 1..Len(calls) : calls[j][1] \in {"WARNING", "ERROR"}}}

LogEventStep == Len(events_seen') = Len(events_seen) + 1

LastCall(calls) == calls[Len(calls)]

RepeatedCall(calls) ==
    \E i \in 1..(Len(calls) - 1) : calls[i] = LastCall(calls)

EntriesMatchPairs == Len(notify_log) = Cardinality(ReportablePairs(events_seen))

SuppressedStep ==
    (/\ LogEventStep
     /\ \/ LastCall(events_seen')[1] = "INFO"
        \/ RepeatedCall(events_seen'))
    => /\ notify_log' = notify_log
       /\ event_logged' = event_logged

(* C20: over any sequence of log_event calls the number of entries written *)
(* to notify/log equals the number of distinct (level, message) pairs of   *)
(* level WARNING or ERROR seen so far, and a call with level INFO or a     *)
(* repeat of an earlier (level, message) pair writes nothing and leaves    *)
(* the set of logged events unchanged.                                     *)
C20_DuplicatesAndInfoSuppressed ==
    /\ []EntriesMatchPairs
    /\ [][SuppressedStep]_vars

(* A WARNING logged once, then an INFO call and a repeat of the WARNING,   *)
(* both of which wrote nothing.                                            *)
C20_Witness ==
    /\ Len(events_seen) = 3
    /\ events_seen[1][1] = "WARNING"
    /\ events_seen[2] = <<"INFO", events_seen[1][2]>>
    /\ events_seen[3] = events_seen[1]
    /\ Len(notify_log) = 1
    /\ Cardinality(event_logged) = 1

-----------------------------------------------------------------------------
(* USBLampController (usb_lamp_controller.py).  A call works on the        *)
(* controller l = [red, green, blue, white, sent]: the four flags and the  *)
(* commands handed to _send_command during the call, each as               *)
(* <<register, value>>.                                                    *)

LampColors == {"red", "green", "blue", "white"}

(* self.register_map (lines 58-63).                                        *)
Register(color) ==
    CASE color = "red" -> 8
      [] color = "green" -> 3
      [] color = "blue" -> 2
      [] color = "white" -> 1

LightSwitch == 4

(* self.default_pwm (line 66).                                             *)
DefaultPwm == 1999

(* The brightness arguments of the calls, in percent.                      *)
Brightnesses == {0, 50, 100, 150}

LampNow ==
    [red |-> red_on, green |-> green_on, blue |-> blue_on, white |-> white_on,
     sent |-> << >>]

(* _build_command and _send_command (lines 81-148): the command for the    *)
(* register and the value is handed to the serial port; what the port does *)
(* does not reach the flags.                                               *)
SendCommand(l, register, value) == [l EXCEPT !.sent = Append(@, <<register, value>>)]

(* set_light_on (lines 171-181).                                           *)
SetLightOn(l, on) == SendCommand(l, LightSwitch, IF on THEN 1 ELSE 0)

(* Lines 272-275: int(default_pwm * brightness / 100) kept within          *)
(* 0..default_pwm.                                                         *)
PwmValue(brightness) == Max(0, Min(DefaultPwm, (DefaultPwm * brightness) \div 100))

(* _set_color_brightness (lines 269-280).                                  *)
SetColorBrightness(l, color, brightness) ==
    SendCommand(l, Register(color), PwmValue(brightness))

(* turn_off_all (lines 282-292).                                           *)
TurnOffAll(l) ==
    SetColorBrightness(
        SetColorBrightness(
            SetColorBrightness(
                SetColorBrightness(
                    [l EXCEPT !.red = FALSE, !.green = FALSE,
                              !.blue = FALSE, !.white = FALSE],
                    "red", 0),
                "green", 0),
            "blue", 0),
        "white", 0)

(* set_red, set_green, set_blue, set_white (lines 183-221): the flag is    *)
(* assigned first, then the lamps are driven.                              *)
SetSingle(l, color, on, brightness) ==
    IF on
    THEN SetColorBrightness(
             SetLightOn(TurnOffAll([l EXCEPT ![color] = on]), TRUE),
             color, brightness)
    ELSE SetColorBrightness([l EXCEPT ![color] = on], color, 0)

SetRed(l, on, brightness) == SetSingle(l, "red", on, brightness)

SetGreen(l, on, brightness) == SetSingle(l, "green", on, brightness)

SetBlue(l, on, brightness) == SetSingle(l, "blue", on, brightness)

SetWhite(l, on, brightness) == SetSingle(l, "white", on, brightness)

Flagged(l, first, second, on) == [l EXCEPT ![first] = on, ![second] = on]

(* set_yellow (lines 223-237): the master light is switched on after the   *)
(* two colours.                                                            *)
SetYellow(l, on, brightness) ==
    IF on
    THEN Flagged(SetLightOn(SetColorBrightness(
                     SetColorBrightness(TurnOffAll(l), "red", brightness),
                     "green", brightness), TRUE),
                 "red", "green", TRUE)
    ELSE Flagged(SetColorBrightness(SetColorBrightness(l, "red", 0), "green", 0),
                 "red", "green", FALSE)

(* set_cyan and set_magenta (lines 239-267).                               *)
SetPair(l, first, second, on, brightness) ==
    IF on
    THEN Flagged(SetColorBrightness(
                     SetColorBrightness(SetLightOn(TurnOffAll(l), TRUE),
                                        first, brightness),
                     second, brightness),
                 first, second, TRUE)
    ELSE Flagged(SetColorBrightness(SetColorBrightness(l, first, 0), second, 0),
                 first, second, FALSE)

SetCyan(l, on, brightness) == SetPair(l, "green", "blue", on, brightness)

SetMagenta(l, on, brightness) == SetPair(l, "red", "blue", on, brightness)

(* The colours whose flag is set.                                          *)
FlagsSet == {color \in LampColors : LampNow[color]}

(* The call op has returned and left the controller as l.                  *)
LampReturns(op, on, l) ==
    /\ red_on' = l.red
    /\ green_on' = l.green
    /\ blue_on' = l.blue
    /\ white_on' = l.white
    /\ lamp_last' = [op |-> op, on |-> on, found |-> FlagsSet, sent |-> l.sent]

LampSetRed ==
    \E on \in BOOLEAN, b \in Brightnesses :
        /\ LampReturns("set_red", on, SetRed(LampNow, on, b))
        /\ UNCHANGED <<can_vars, arm_vars, wire_vars, prod_vars>>

LampSetGreen ==
    \E on \in BOOLEAN, b \in Brightnesses :
        /\ LampReturns("set_green", on, SetGreen(LampNow, on, b))
        /\ UNCHANGED <<can_vars, arm_vars, wire_vars, prod_vars>>

LampSetBlue ==
    \E on \in BOOLEAN, b \in Brightnesses :
        /\ LampReturns("set_blue", on, SetBlue(LampNow, on, b))
        /\ UNCHANGED <<can_vars, arm_vars, wire_vars, prod_vars>>

LampSetWhite ==
    \E on \in BOOLEAN, b \in Brightnesses :
        /\ LampReturns("set_white", on, SetWhite(LampNow, on, b))
        /\ UNCHANGED <<can_vars, arm_vars, wire_vars, prod_vars>>

LampSetYellow ==
    \E on \in BOOLEAN, b \in Brightnesses :
        /\ LampReturns("set_yellow", on, SetYellow(LampNow, on, b))
        /\ UNCHANGED <<can_vars, arm_vars, wire_vars, prod_vars>>

LampSetCyan ==
    \E on \in BOOLEAN, b \in Brightnesses :
        /\ LampReturns("set_cyan", on, SetCyan(LampNow, on, b))
        /\ UNCHANGED <<can_vars, arm_vars, wire_vars, prod_vars>>

LampSetMagenta ==
    \E on \in BOOLEAN, b \in Brightnesses :
        /\ LampReturns("set_magenta", on, SetMagenta(LampNow, on, b))
        /\ UNCHANGED <<can_vars, arm_vars, wire_vars, prod_vars>>

LampTurnOffAll ==
    /\ LampReturns("turn_off_all", FALSE, TurnOffAll(LampNow))
    /\ UNCHANGED <<can_vars, arm_vars, wire_vars, prod_vars>>

(* A controller constructed; the servers and the producer idle.            *)
InitLamp == InitCanIdle /\ InitArmIdle /\ WireIdle /\ ProducerConstructed /\ LampConstructed

NextLamp ==
    \/ LampSetRed \/ LampSetGreen \/ LampSetBlue \/ LampSetWhite
    \/ LampSetYellow \/ LampSetCyan \/ LampSetMagenta \/ LampTurnOffAll

SpecLamp == InitLamp /\ [][NextLamp]_vars

(* The commands of a call begin with the four lamps set to 0 and the       *)
(* master light switched on.                                               *)
OffThenLightOn(cmds) ==
    /\ Len(cmds) >= 5
    /\ SubSeq(cmds, 1, 5) =
           <<<<Register("red"), 0>>, <<Register("green"), 0>>,
             <<Register("blue"), 0>>, <<Register("white"), 0>>, <<LightSwitch, 1>>>>

SwitchedOn(op) == lamp_last.op = op /\ lamp_last.on

AllFlagsOff == ~red_on /\ ~green_on /\ ~blue_on /\ ~white_on

FlagAfterSetOn ==
    /\ SwitchedOn("set_red") => red_on
    /\ SwitchedOn("set_green") => green_on
    /\ SwitchedOn("set_blue") => blue_on

LampsDrivenOnSetOn ==
    (SwitchedOn("set_red") \/ SwitchedOn("set_green") \/ SwitchedOn("set_blue"))
    => OffThenLightOn(lamp_last.sent)

FlagsOffAfterTurnOffAll == lamp_last.op = "turn_off_all" => AllFlagsOff

(* C21: after set_red(on=True) red_on is True (likewise green_on after     *)
(* set_green(on=True) and blue_on after set_blue(on=True)), the call       *)
(* having first turned all lamps off and switched the master light on; and *)
(* after turn_off_all(), following any sequence of set_* calls, red_on,    *)
(* green_on, blue_on and white_on are all False.                           *)
C21_LampFlags ==
    /\ FlagAfterSetOn
    /\ LampsDrivenOnSetOn
    /\ FlagsOffAfterTurnOffAll

(* The part of C21 the code keeps: the commands of a switching-on call and *)
(* the flags after turn_off_all().                                         *)
C21_LampsDrivenAndCleared == LampsDrivenOnSetOn /\ FlagsOffAfterTurnOffAll

(* turn_off_all() called while two flags were set.                         *)
C21_ClearedAfterPair ==
    /\ lamp_last.op = "turn_off_all"
    /\ lamp_last.found = {"red", "green"}
    /\ AllFlagsOff

-----------------------------------------------------------------------------
(* The aggregate RTT of a snapshot: snapshots of 1 to MaxPairs pairs whose *)
(* rtt_mean_ms values are all different, rising or falling with the order  *)
(* of the pairs in the message.                                            *)

(* Bound: pairs in one snapshot.                                           *)
MaxPairs == 20

(* Bound: lines received in one run of SpecP95.                            *)
MaxP95Lines == 2

RisingSnapshot(n) ==
    [i \in 1..n |-> PairEntry(Pair(J(i), J(i)), Stats(i, J(0), J(0)))]

FallingSnapshot(n) ==
    [i \in 1..n |-> PairEntry(Pair(J(i), J(i)), Stats(n + 1 - i, J(0), J(0)))]

P95Lines ==
    {Msg(Metrics(10, 0, 0, RisingSnapshot(n))) : n \in 1..MaxPairs}
    \cup {Msg(Metrics(10, 0, 0, FallingSnapshot(n))) : n \in 1..MaxPairs}

P95Can ==
    /\ can_steps < MaxP95Lines
    /\ CanRecv("c1", P95Lines)
    /\ UNCHANGED <<arm_vars, wire_vars, prod_vars, lamp_vars>>

NextP95 == P95Can

SpecP95 == InitCanOnly /\ [][NextP95]_vars

(* Nearest rank: ceil(0.95 * count) - 1, 0-based.                          *)
NearestRankIndex(count) == ((95 * count + 99) \div 100) - 1

RttMeans(pairs) == [i \in 1..Len(pairs) |-> pairs[i].stats.rtt_mean_ms]

EmittedP95 == {LastOut[k].num : k \in {j \in 1..Len(LastOut) : LastOut[j].p = "can/rtt/p95"}}

P95IsNearestRank ==
    EmittedP95 = {Sorted(RttMeans(LastPairs))[NearestRankIndex(Len(LastPairs)) + 1]}

(* C22: the aggregate RTT 95th percentile emitted for a metrics snapshot   *)
(* of count >= 1 pairs is the element at index ceil(0.95 * count) - 1 of   *)
(* the pairs' rtt_mean_ms values sorted ascending, for every count.        *)
C22_P95NearestRank ==
    (LastMetricsCompleted /\ Len(LastPairs) >= 1) => P95IsNearestRank

(* What the code keeps of C22: the nearest-rank value for every count that *)
(* is not a multiple of 20, where 0.95 * count is not whole.               *)
C22_P95NearestRankOffTwenties ==
    (LastMetricsCompleted /\ Len(LastPairs) >= 1 /\ Len(LastPairs) % 20 # 0)
    => P95IsNearestRank

(* A snapshot of 19 pairs: index 18, the largest value.                    *)
C22_NineteenPairs ==
    /\ LastMetricsCompleted
    /\ Len(LastPairs) = 19
    /\ EmittedP95 = {19}

-----------------------------------------------------------------------------
(* The idle query and the time of the last sample.                         *)

(* _arm_is_active(now) answers as the rule says, at every time.            *)
ActiveByRule ==
    \A now \in 0..MaxMono :
        ArmIsActive(idle_timeout_s, last_arm_sample_mono_s, now)
        <=> \/ ~idle_timeout_s.set
            \/ now - last_arm_sample_mono_s <= idle_timeout_s.s

(* No line handled yet: the time is the one of the construction.           *)
LastSetAtConstruction == arm_steps = 0 => last_arm_sample_mono_s = 0

(* A step on a sample records its time, a step on anything else leaves the *)
(* recorded time alone.                                                    *)
LastSetBySamplesOnly ==
    ArmStep =>
        IF ArmLineType(arm_last'.line) = "sample"
        THEN last_arm_sample_mono_s' = mono'
        ELSE last_arm_sample_mono_s' = last_arm_sample_mono_s

(* C23: the arm is reported active at time now if no idle timeout is       *)
(* configured, and otherwise exactly when now - last_sample_time <=        *)
(* idle_timeout; last_sample_time is set at construction and on receipt of *)
(* every message of type sample, including one whose required vectors are  *)
(* missing or not lists, and by no other message type.                     *)
C23_ActiveSinceLastSample ==
    /\ [](ActiveByRule /\ LastSetAtConstruction)
    /\ [][LastSetBySamplesOnly]_vars

(* The same for the lines that hold the marker only as their type.         *)
C23_ActiveSinceLastPlainSample ==
    /\ [](ActiveByRule /\ LastSetAtConstruction)
    /\ [][MarkerOnFramesOnly(arm_last'.line) => LastSetBySamplesOnly]_vars

(* A sample whose target is not a list, processed after the clock moved:   *)
(* its time is recorded.                                                   *)
C23_TimeOfRejectedSample ==
    /\ ArmLastType = "sample"
    /\ ~IsList(ArmLastData.target)
    /\ last_arm_sample_mono_s = mono
    /\ mono > 0

-----------------------------------------------------------------------------
(* The fast path of the arm handler against decoding first: lines of every *)
(* kind with and without the bytes "type":"camera_frame" in them, on a     *)
(* server constructed with and without a timeout and the drop flag.        *)

(* Bound: lines received in one run of SpecFast.                           *)
MaxFastLines == 3

GripperSample == [type |-> "gripper_sample", data |-> [pos |-> "num"]]

FastLines ==
    {ArmMsg(m, marker) :
        m \in {CameraFrame("ok"), Sample(OneJoint, OneJoint, OneJoint, OneJoint),
               ArmEventMsg("WARNING", "overheat"), GripperSample},
        marker \in BOOLEAN}
    \cup {ArmRaw("badjson", TRUE), ArmRaw("badutf8", TRUE), ArmRaw("notobject", TRUE)}

FastArm ==
    /\ arm_steps < MaxFastLines
    /\ ArmRecv("c1", FastLines)
    /\ UNCHANGED <<can_vars, wire_vars, prod_vars, lamp_vars>>

FastTick == ArmTick /\ UNCHANGED <<can_vars, wire_vars, prod_vars, lamp_vars>>

NextFast == FastArm \/ FastTick

SpecFast == InitIdle /\ [][NextFast]_vars

(* The handler that decodes every line and checks afterwards.              *)
DecodeFirst(a, line, now) ==
    IF EndsLoop(line)
    THEN [a EXCEPT !.exc = ReadExc(line), !.escaped = (line.kind = "toolong")]
    ELSE ArmDecoded(a, line, now)

(* What a run of the handler on one line leaves to be seen: the sink       *)
(* calls, the idle state, the joint identifiers, whether the line was      *)
(* dropped as a frame and whether the connection goes on.                  *)
Observable(a) ==
    [out |-> a.out, last |-> a.last, logged |-> a.logged, names |-> a.names,
     bp |-> a.bp, dropped |-> a.dropped, escaped |-> a.escaped]

ObservedStep ==
    [out |-> arm_last'.out, last |-> last_arm_sample_mono_s',
     logged |-> logged_idle_for_camera', names |-> joint_names',
     bp |-> blueprint_sent', dropped |-> arm_last'.dropped,
     escaped |-> arm_last'.escaped]

SameAsDecodeFirst ==
    ArmStep =>
        ObservedStep = Observable(DecodeFirst(ArmRun(arm_last'.line), arm_last'.line, mono'))

(* A line is dropped as an idle frame only if it decodes to a message of   *)
(* type camera_frame.                                                      *)
DropsFramesOnly ==
    ArmStep /\ arm_last'.dropped => ArmLineType(arm_last'.line) = "camera_frame"

(* C24: the fast path of the arm handler (dropping a line that contains    *)
(* the bytes "type":"camera_frame" while idle) is observably identical to  *)
(* decoding first and checking afterwards: it drops a line exactly when    *)
(* the decoded message's top-level type is camera_frame and the drop       *)
(* conditions hold, never a sample, event or gripper_sample, and logs the  *)
(* same 'pausing' events.                                                  *)
C24_FastPathIsDecodeFirst == [][SameAsDecodeFirst /\ DropsFramesOnly]_vars

(* The same for the lines that hold the marker only as their type.         *)
C24_FastPathIsDecodeFirstOnPlainLines ==
    [][MarkerOnFramesOnly(arm_last'.line) => SameAsDecodeFirst /\ DropsFramesOnly]_vars

(* A frame dropped by the fast path in a span whose 'pausing' was logged   *)
(* before.                                                                 *)
C24_FrameDroppedBeforeDecoding ==
    /\ arm_last.path = "fast"
    /\ ArmLastType = "camera_frame"
    /\ arm_last.was_logged
    /\ arm_last.out = << >>

-----------------------------------------------------------------------------
(* Messages whose processing fails midway: snapshots whose second pair has *)
(* statistics that are not an object, or a count that int() cannot hold,   *)
(* after a well-formed first pair and before a well-formed third one; a    *)
(* mapping message with such a value in the middle of joint_ids; a line    *)
(* that is not an object; between well-formed snapshots.                   *)

(* Bound: lines received in one run of SpecSchema.                         *)
MaxSchemaLines == 3

SchemaCounts == {J(0), J(1), J(2)}

BrokenStats == {NotADict, Stats(5, W("inf", 0), J(1)), Stats(5, J(1), W("inf", 0))}

SchemaLines ==
    {Msg(Metrics(10, 0, 0, <<PairEntry(Pair(J(1), J(2)), Stats(5, t, s))>>)) :
        t \in SchemaCounts, s \in SchemaCounts}
    \cup {Msg(Metrics(90, 0, 0, <<PairEntry(Pair(J(1), J(2)), Stats(5, t, J(2))),
                                  PairEntry(Pair(J(2), J(1)), bad),
                                  PairEntry(Pair(J(3), J(3)), Stats(5, J(1), J(1)))>>)) :
             t \in SchemaCounts, bad \in BrokenStats}
    \cup {Msg(Mapping(<<Entry(W("str", 1), "shoulder")>>,
                      <<Entry(W("str", 1), J(3)), Entry(W("str", 2), W("inf", 0)),
                        Entry(W("str", 3), J(4))>>,
                      <<Entry(W("str", 1), J(2))>>)),
          RawLine("notobject")}

SchemaCan ==
    /\ can_steps < MaxSchemaLines
    /\ CanRecv("c1", SchemaLines)
    /\ UNCHANGED <<arm_vars, wire_vars, prod_vars, lamp_vars>>

NextSchema == SchemaCan

SpecSchema == InitCanOnly /\ [][NextSchema]_vars

(* The step processed a decoded line and the processing failed.            *)
SchemaErrorStep ==
    /\ can_steps' = can_steps + 1
    /\ can_last'.line.kind \in Processed
    /\ can_last'.exc # "none"

StepType ==
    IF can_last'.line.kind = "msg" THEN GetOr(can_last'.line.msg, "type", "null")
    ELSE "none"

(* The pair's statistics make the processing fail.                         *)
BreaksPair(e) ==
    IF e.stats.form # "dict" THEN TRUE
    ELSE e.stats.timeout_count.t = "inf" \/ e.stats.sample_count.t = "inf"

BreaksEntry(e) == e.v.t = "inf"

(* The elements of sq before the first one that breaks.                    *)
Before(sq, Breaks(_)) ==
    LET broken == {i \in 1..Len(sq) : Breaks(sq[i])}
    IN  IF broken = {} THEN sq
        ELSE SubSeq(sq, 1, (CHOOSE i \in broken : \A j \in broken : i <= j) - 1)

(* The counts stored after the step are those of the pairs before the      *)
(* failure, and those of every other joint are as they were.               *)
PairsBeforeFailureStored ==
    LET done_ == Before(GetOr(can_last'.line.msg.data, "per_pair_rtt", << >>), BreaksPair)
        joints == {ExpectedJoint(done_[k].key) : k \in 1..Len(done_)}
    IN  /\ \A k \in 1..Len(done_) :
              /\ ExpectedJoint(done_[k].key) \in DOMAIN last_pair_counts'
              /\ last_pair_counts'[ExpectedJoint(done_[k].key)] =
                     <<done_[k].stats.timeout_count.v, done_[k].stats.sample_count.v>>
        /\ \A j \in (DOMAIN last_pair_counts \cup DOMAIN last_pair_counts') \ joints :
              /\ j \in DOMAIN last_pair_counts
              /\ j \in DOMAIN last_pair_counts'
              /\ last_pair_counts'[j] = last_pair_counts[j]

(* Nothing that follows the failure point of a snapshot took place.        *)
RestOfMetricsDiscarded ==
    /\ UNCHANGED <<last_status, status_message, can_id_to_name, can_id_to_joint_id,
                   can_id_map>>
    /\ \A k \in 1..Len(can_last'.out) :
          can_last'.out[k].p \notin {"can/rtt/mean", "can/rtt/p95", "notify/dashboard"}

(* The entries of a mapping message before the failure are merged, the     *)
(* later ones are not.                                                     *)
MappingBeforeFailureMerged ==
    /\ Merged(can_id_to_name, can_id_to_name', StepEntries("joint_names"), FALSE)
    /\ Merged(can_id_to_joint_id, can_id_to_joint_id',
              Before(StepEntries("joint_ids"), BreaksEntry), TRUE)
    /\ UNCHANGED <<can_id_map, last_status, status_message, last_pair_counts>>

PartialStateKept ==
    CASE StepType = "metrics" -> PairsBeforeFailureStored /\ RestOfMetricsDiscarded
      [] StepType = "mapping" -> MappingBeforeFailureMerged
      [] OTHER -> UNCHANGED <<last_status, status_message, last_pair_counts,
                              can_id_to_name, can_id_to_joint_id, can_id_map>>

(* C25: a message with a schema error that makes its processing fail       *)
(* midway is discarded and the connection continues, and the state changes *)
(* made before the failure point are kept: in a snapshot whose second      *)
(* pair's statistics are malformed the counts stored for the first pair    *)
(* are the snapshot's.                                                     *)
C25_SchemaErrorKeepsPartialState ==
    [][SchemaErrorStep =>
          /\ can_pc'[can_last'.conn] = "await"
          /\ PartialStateKept]_vars

(* A snapshot with bus load 90 whose second pair is not an object, after a *)
(* snapshot with other counts for the first pair: the first pair's counts  *)
(* are the new ones, the status is still INFO and the handler reads on.    *)
C25_Witness ==
    /\ LastType = "metrics"
    /\ can_last.exc = "AttributeError"
    /\ Len(LastPairLog) = 1
    /\ LastPairLog[1].before # EmptyMap
    /\ LastPairLog[1].before # LastPairLog[1].after
    /\ last_pair_counts = LastPairLog[1].after
    /\ GetOr(LastData, "bus_load_percent", 0) = 90
    /\ last_status = "INFO"
    /\ can_pc["c1"] = "await"

-----------------------------------------------------------------------------
(* Two connections served at once by each server: the peers write lines    *)
(* into the readers' buffers in any order, and each handler, resumed from  *)
(* its readline() (the only await of its loop, can line 127, arm line      *)
(* 220), handles one line up to its next readline().                       *)

(* Bound: lines written by all peers together in one run of SpecShared.    *)
MaxSharedLines == 3

SharedCanLines ==
    {Msg(Metrics(90, 0, 0, <<PairEntry(Pair(J(1), J(2)), Stats(5, J(1), J(1)))>>)),
     Msg(Metrics(10, 0, 0, <<PairEntry(Pair(J(1), J(2)), Stats(5, J(2), J(2)))>>)),
     Msg(Mapping(<< >>, <<Entry(W("str", 1), J(3))>>, << >>)),
     RawLine("notobject")}

SharedArmLines ==
    {ArmMsg(CameraFrame("ok"), TRUE),
     ArmMsg(Sample(OneJoint, OneJoint, OneJoint, OneJoint), FALSE),
     ArmMsg(Sample(TwoJoints, TwoJoints, TwoJoints, TwoJoints), FALSE),
     ArmRaw("badutf8", FALSE)}

(* Both servers started, each with two connections accepted and their      *)
(* handlers suspended in readline(); the arm server drops frames after one *)
(* second without a sample.                                                *)
InitShared ==
    /\ CanConstructed
    /\ can_running = TRUE
    /\ can_listening = TRUE
    /\ can_pc = [c \in Conns |-> "await"]
    /\ ArmConstructed(Timeout(1), TRUE)
    /\ arm_running = TRUE
    /\ arm_listening = TRUE
    /\ arm_pc = [c \in Conns |-> "await"]
    /\ WireIdle
    /\ ProducerConstructed /\ LampConstructed

SharedCanSend ==
    \E c \in Conns :
       /\ PeerSend("can", c, SharedCanLines, MaxSharedLines)
       /\ UNCHANGED <<can_vars, arm_vars, prod_vars, lamp_vars>>

SharedArmSend ==
    \E c \in Conns :
       /\ PeerSend("arm", c, SharedArmLines, MaxSharedLines)
       /\ UNCHANGED <<can_vars, arm_vars, prod_vars, lamp_vars>>

SharedCanRead ==
    \E c \in Conns : CanRead(c) /\ UNCHANGED <<arm_vars, prod_vars, lamp_vars>>

SharedArmRead ==
    \E c \in Conns : ArmRead(c) /\ UNCHANGED <<can_vars, prod_vars, lamp_vars>>

NextShared == SharedCanSend \/ SharedArmSend \/ SharedCanRead \/ SharedArmRead

SpecShared == InitShared /\ [][NextShared]_vars

(* The orders in which the lines of two connections can be handled one     *)
(* after the other, each connection's own order kept.                      *)
RECURSIVE Interleavings(_, _)
Interleavings(a, b) ==
    IF a = << >> THEN {b}
    ELSE IF b = << >> THEN {a}
    ELSE {<<Head(a)>> \o r : r \in Interleavings(Tail(a), b)}
         \cup {<<Head(b)>> \o r : r \in Interleavings(a, Tail(b))}

(* The shared state of the CAN server, with the dashboard documents sent.  *)
CanShared ==
    [names |-> can_id_to_name, joints |-> can_id_to_joint_id, idmap |-> can_id_map,
     counts |-> last_pair_counts, status |-> last_status, message |-> status_message,
     docs |-> can_docs]

CanSharedAtStart ==
    [names |-> EmptyMap, joints |-> EmptyMap, idmap |-> EmptyMap, counts |-> EmptyMap,
     status |-> "INFO", message |-> <<"CAN Bus Monitoring Active", 0, 0>>, docs |-> 0]

(* One line processed alone, from the shared state st.                     *)
CanAlone(st, line) ==
    [names |-> st.names, joints |-> st.joints, idmap |-> st.idmap, counts |-> st.counts,
     status |-> st.status, message |-> st.message,
     out |-> << >>, exc |-> "none", level |-> "none",
     pairlog |-> << >>, rtts |-> << >>, handler |-> "none", calls |-> << >>,
     failAt |-> line.failAt, failKind |-> line.failKind]

CanSharedAfter(st, a) ==
    [names |-> a.names, joints |-> a.joints, idmap |-> a.idmap, counts |-> a.counts,
     status |-> a.status, message |-> a.message, docs |-> st.docs + CountDocs(a.out)]

RECURSIVE CanSequential(_, _)
CanSequential(st, lines) ==
    IF lines = << >> THEN st
    ELSE CanSequential(CanSharedAfter(st, CanProcessLine(CanAlone(st, Head(lines)),
                                                         Head(lines))),
                       Tail(lines))

CanSerializable ==
    \E order \in Interleavings(done["can"]["c1"], done["can"]["c2"]) :
        CanShared = CanSequential(CanSharedAtStart, order)

(* The shared state of the arm server, with the idle-span events logged.   *)
ArmShared ==
    [names |-> joint_names, bp |-> blueprint_sent, last |-> last_arm_sample_mono_s,
     logged |-> logged_idle_for_camera, events |-> arm_events, now |-> mono]

ArmSharedAtStart ==
    [names |-> << >>, bp |-> FALSE, last |-> 0, logged |-> FALSE, events |-> << >>,
     now |-> 0]

ArmAlone(st, line) ==
    [names |-> st.names, bp |-> st.bp, last |-> st.last, logged |-> st.logged,
     out |-> << >>, exc |-> "none", escaped |-> FALSE, dropped |-> FALSE,
     path |-> "none", failAt |-> line.failAt, failKind |-> line.failKind]

ArmSharedAfter(st, a, now) ==
    [names |-> a.names, bp |-> a.bp, last |-> a.last, logged |-> a.logged,
     events |-> st.events \o EventsOf(a.out), now |-> now]

(* The states sequential processing of the lines can end in, the clock     *)
(* moving on by 0 or 1 while a line is handled.                            *)
RECURSIVE ArmSequential(_, _)
ArmSequential(st, lines) ==
    IF lines = << >> THEN {st}
    ELSE UNION {ArmSequential(
                    ArmSharedAfter(st, ArmHandle(ArmAlone(st, Head(lines)), Head(lines),
                                                 st.now, st.now + d),
                                   st.now + d),
                    Tail(lines)) : d \in {0, 1}}

ArmSerializable ==
    \E order \in Interleavings(done["arm"]["c1"], done["arm"]["c2"]) :
        ArmShared \in ArmSequential(ArmSharedAtStart, order)

-----------------------------------------------------------------------------
(* The 'idle already logged' flag of the arm server, in SpecIdle.          *)

(* The flag is set only with the drop flag enabled and a timeout           *)
(* configured, and while it is set the arm is idle.                        *)
FlagMeansIdle ==
    logged_idle_for_camera =>
        /\ IdleConfigured
        /\ ~ArmIsActive(idle_timeout_s, last_arm_sample_mono_s, mono)

(* A sample message leaves the flag cleared, and one that arrives with the *)
(* flag set emits the 'resumed' event.                                     *)
SampleClearsFlag ==
    ArmStep /\ ArmLineType(arm_last'.line) = "sample" =>
        /\ ~logged_idle_for_camera'
        /\ logged_idle_for_camera => EventsOf(arm_last'.out) = <<"resumed">>

(* Nothing but a sample clears the flag.                                   *)
FlagKeptUntilSample ==
    ArmStep /\ logged_idle_for_camera /\ ArmLineType(arm_last'.line) # "sample" =>
        logged_idle_for_camera'

(* C27: whenever _logged_idle_for_camera is set, the drop flag is enabled, *)
(* a timeout is configured, no sample has been received since the          *)
(* 'pausing' event that set it and the arm is idle at every later time     *)
(* until the next sample; the next sample message always finds the arm     *)
(* idle, emits the 'resumed' event and clears the flag, so the flag is     *)
(* never left set after a sample.                                          *)
C27_FlagSetOnlyWhileIdle ==
    /\ []FlagMeansIdle
    /\ [][SampleClearsFlag /\ FlagKeptUntilSample]_vars

(* The same for the lines that hold the marker only as their type.         *)
C27_FlagSetOnlyWhileIdleOnPlainLines ==
    /\ []FlagMeansIdle
    /\ [][MarkerOnFramesOnly(arm_last'.line) =>
              SampleClearsFlag /\ FlagKeptUntilSample]_vars

(* A sample that found the flag set and cleared it, after the clock moved  *)
(* on past the 'pausing' event.                                            *)
C27_ResumedBySample ==
    /\ ArmLastType = "sample"
    /\ arm_last.was_logged
    /\ ~logged_idle_for_camera
    /\ arm_events = <<"pausing", "resumed">>
    /\ mono = MaxMono

-----------------------------------------------------------------------------
(* The lines a handler takes once stop() has cleared the running flag, in  *)
(* SpecServe.                                                              *)

(* A line taken with the flag cleared is the one the pending readline()    *)
(* returns, and the handler is through its finally clause after it.        *)
OneLineAfterStop(s, c) ==
    ~Running(s) /\ ReadStep(s, c) =>
        /\ Pc(s)[c] = "await"
        /\ done'[s][c] = Append(done[s][c], NextLine(inbox[s][c]))
        /\ Pc(s)'[c] = "closed"

(* A handler that is not in readline() takes no line, and with the flag    *)
(* cleared its next step is into the finally clause.                       *)
NoLineUnlessWaiting(s, c) ==
    Pc(s)[c] # "await" =>
        /\ ~ReadStep(s, c)
        /\ ~Running(s) /\ Pc(s)'[c] # Pc(s)[c] => Pc(s)'[c] = "closed"

(* A handler through its finally clause stays there.                       *)
ClosedForGood(s, c) == Pc(s)[c] = "closed" => Pc(s)'[c] = "closed"

(* C28: after stop() has set the running flag to false, each connection    *)
(* handler processes at most one further line, the one its pending read    *)
(* returns, before it leaves its loop and closes its writer; a handler     *)
(* that was not waiting in a read processes none.                          *)
C28_AtMostOneLineAfterStop ==
    [][\A s \in Servers : \A c \in Conns :
          /\ OneLineAfterStop(s, c)
          /\ NoLineUnlessWaiting(s, c)
          /\ ClosedForGood(s, c)]_vars

(* The CAN server was stopped with two lines in the buffer of c1 and the   *)
(* handler of c2 not yet started: c1 processed the first line and closed   *)
(* with the second still in the buffer, c2 closed without taking the line  *)
(* written to it.                                                          *)
C28_Witness ==
    /\ ~can_running
    /\ can_pc = [c \in Conns |-> "closed"]
    /\ Len(done["can"]["c1"]) = 1
    /\ can_last.conn = "c1"
    /\ can_last.line.kind = "msg"
    /\ inbox["can"]["c1"] # << >>
    /\ done["can"]["c2"] = << >>
    /\ inbox["can"]["c2"] # << >>
    /\ inbox["can"]["c2"][1].kind = "msg"

-----------------------------------------------------------------------------
(* The counts a pair's loss rate is computed against: snapshots of pairs   *)
(* that share an identifier, alone and together, and a mapping message     *)
(* that gives an identifier a joint id, written to one connection of the   *)
(* CAN server and read in order.                                           *)

(* Bound: lines written in one run of SpecPairs.                           *)
MaxPairLines == 3

PairSnapshots ==
    {<<PairEntry(Pair(J(1), J(2)), Stats(5, J(t), J(t)))>> : t \in {1, MaxCount}}
    \cup {<<PairEntry(Pair(J(3), J(2)), Stats(5, J(0), J(1)))>>,
          <<PairEntry(Pair(J(2), J(1)), Stats(5, J(MaxCount), J(MaxCount)))>>,
          <<PairEntry(Pair(J(1), J(2)), Stats(5, J(1), J(1))),
            PairEntry(Pair(J(2), J(1)), Stats(5, J(0), J(MaxCount)))>>}

PairLines ==
    {Msg(Metrics(10, 0, 0, ps)) : ps \in PairSnapshots}
    \cup {Msg(Mapping(<< >>, <<Entry(W("str", 2), J(5))>>, << >>))}

PairsSend ==
    /\ PeerSend("can", "c1", PairLines, MaxPairLines)
    /\ UNCHANGED <<can_vars, arm_vars, prod_vars, lamp_vars>>

PairsRead == CanRead("c1") /\ UNCHANGED <<arm_vars, prod_vars, lamp_vars>>

NextPairs == PairsSend \/ PairsRead

SpecPairs == InitCanOnly /\ [][NextPairs]_vars

(* The pairs whose counts were stored (line 214) while `lines` were        *)
(* processed one after the other from the state st, in order, each with    *)
(* the counts stored before it.                                            *)
RECURSIVE PairsStored(_, _)
PairsStoredThen(st, a, rest) == a.pairlog \o PairsStored(CanSharedAfter(st, a), rest)

PairsStored(st, lines) ==
    IF lines = << >> THEN << >>
    ELSE PairsStoredThen(st, CanProcessLine(CanAlone(st, Head(lines)), Head(lines)),
                         Tail(lines))

StoredSoFar == PairsStored(CanSharedAtStart, done["can"]["c1"])

(* The entries before the i-th that Same(_, _) relates to it.              *)
Earlier(h, i, Same(_, _)) == {j \in 1..(i - 1) : Same(h[j], h[i])}

(* The counts the i-th stored pair was computed against are those of the   *)
(* last earlier entry that Same(_, _) relates to it, (0, 0) without one.   *)
PreviousIsLastOf(h, i, Same(_, _)) ==
    CountsOf(h[i].before, h[i].joint) =
        IF Earlier(h, i, Same) = {} THEN <<0, 0>>
        ELSE <<h[Latest(Earlier(h, i, Same))].timeout,
               h[Latest(Earlier(h, i, Same))].sample>>

SamePair(r, s) == r.key = s.key

SameJoint(r, s) == r.joint = s.joint

(* C29: the previous cumulative counts used for the loss rate of one       *)
(* (send_id, recv_id) pair are always the counts last stored for that same *)
(* pair: processing a different pair, in the same or another snapshot, or  *)
(* a mapping message never changes the counts that a pair's next loss rate *)
(* is computed against.                                                    *)
C29_PreviousCountsPerPair ==
    \A i \in 1..Len(StoredSoFar) : PreviousIsLastOf(StoredSoFar, i, SamePair)

(* What the code keeps: the counts last stored under the joint id the pair *)
(* resolves to at the time.                                                *)
C29_PreviousCountsPerJoint ==
    /\ CanShared = CanSequential(CanSharedAtStart, done["can"]["c1"])
    /\ \A i \in 1..Len(StoredSoFar) : PreviousIsLastOf(StoredSoFar, i, SameJoint)

(* Two pairs of one snapshot that resolve to different joints, after a     *)
(* snapshot of the first pair alone: each is computed against its own      *)
(* counts.                                                                 *)
C29_PairsApart ==
    /\ Len(StoredSoFar) = 3
    /\ Len(LastPairLog) = 2
    /\ StoredSoFar[1].key = StoredSoFar[2].key
    /\ StoredSoFar[1].joint # StoredSoFar[3].joint
    /\ CountsOf(StoredSoFar[2].before, StoredSoFar[2].joint) = <<MaxCount, MaxCount>>

-----------------------------------------------------------------------------
(* The stored joint identifiers against the joints of later samples, in    *)
(* SpecSample.                                                             *)

StaticCalls(out) == {k \in 1..Len(out) : out[k].static}

ValueCalls(out) ==
    {k \in 1..Len(out) : out[k].p \in SeriesPaths \cup {AccPath} /\ ~out[k].static}

(* Once the list holds a joint it does not change.                         *)
NamesKept == ArmStep /\ joint_names # << >> => joint_names' = joint_names

(* Static styles are logged by a step that found no identifier stored,     *)
(* for the joints of the list it stores.                                   *)
StylesForStoredList ==
    ArmStep /\ StaticCalls(arm_last'.out) # {} =>
        /\ joint_names = << >>
        /\ {arm_last'.out[k].id : k \in StaticCalls(arm_last'.out)}
              = 1..Len(joint_names')

(* A sample of lists whose first n elements are numbers, handled with no   *)
(* sink failure, has a value emitted for each of its own n joints and for  *)
(* no other.                                                               *)
OwnJointsEmitted ==
    (/\ ArmStep /\ LastSampleOfLists'
     /\ RequiredNumeric(ArmData(arm_last'.line.msg), JointCount(ArmData(arm_last'.line.msg)))
     /\ arm_last'.line.failAt = 0)
    => {arm_last'.out[k].id : k \in ValueCalls(arm_last'.out)}
          = 1..JointCount(ArmData(arm_last'.line.msg))

(* Every joint a value is emitted for is in the stored list.               *)
EmittedJointsStored ==
    ArmStep =>
        \A k \in ValueCalls(arm_last'.out) : arm_last'.out[k].id \in 1..Len(joint_names')

(* C30: once a sample with n >= 1 has been accepted the stored             *)
(* joint-identifier list never changes, and the static series styles are   *)
(* logged only for that list; the per-joint data of every later sample is  *)
(* emitted for that sample's own n joints, and every joint for which data  *)
(* is emitted belongs to the list for which layout and styles were         *)
(* initialized.                                                            *)
C30_EmittedJointsInStoredList ==
    [][NamesKept /\ StylesForStoredList /\ OwnJointsEmitted /\ EmittedJointsStored]_vars

(* The same without its last part.                                         *)
C30_StoredListKept ==
    [][NamesKept /\ StylesForStoredList /\ OwnJointsEmitted]_vars

(* A sample of two joints after a sample of one joint: values are emitted  *)
(* for the second joint, the list holds the first only, and no style is    *)
(* logged.                                                                 *)
C30_JointOutsideList ==
    /\ arm_steps = 2
    /\ joint_names = <<1>>
    /\ SeriesCalls(arm_last.out, "arm/joints/<name>/torque", 2) # {}
    /\ StaticCalls(arm_last.out) = {}

====
